---- MODULE Spec2Model ----
(***************************************************************************)
(* Message-handling pipeline of the diet-tracking backend                  *)
(* (app/api/v1/webhook.py and the services it calls).                      *)
(*                                                                         *)
(* Conventions.                                                            *)
(*  - Text is a sequence of one-character strings, so that lower(),        *)
(*    strip(), startswith() and `in` are computed as Python computes them. *)
(*  - Numbers are fixed-point integers counting tenths (1.0 is 10,         *)
(*    1.5 is 15); JSON values are tagged records Num/Str/Null.             *)
(*  - One task per inbound message; a task's step is the code between two  *)
(*    awaits (the I/O call and the synchronous code that follows it).      *)
(***************************************************************************)
EXTENDS Integers, Sequences, FiniteSets, TLC

\* ---------------------------------------------------------------- bounds
\* number of inbound messages handled concurrently
NumMsgs == 2
\* last tick the server clock can reach (two ticks per calendar day)
MaxTime == 2

Msgs == 1..NumMsgs

\* ------------------------------------------------------------ JSON values
Num(n) == [num |-> n]
Str(s) == [str |-> s]
Null == [null |-> TRUE]
IsNum(x) == "num" \in DOMAIN x
IsStr(x) == "str" \in DOMAIN x
\* Python truthiness of an optional string value (None and "" are falsy)
Truthy(x) == IsStr(x) /\ Len(x.str) > 0

\* 1.0 in tenths: the upper end of the confidence range
One == 10

\* ------------------------------------------------------------------ text
UpperChars == <<"A","B","C","D","E","F","G","H","I","J","K","L","M",
                "N","O","P","Q","R","S","T","U","V","W","X","Y","Z">>
LowerChars == <<"a","b","c","d","e","f","g","h","i","j","k","l","m",
                "n","o","p","q","r","s","t","u","v","w","x","y","z">>

LowerChar(c) ==
    IF \E i \in DOMAIN UpperChars : UpperChars[i] = c
    THEN LowerChars[CHOOSE i \in DOMAIN UpperChars : UpperChars[i] = c]
    ELSE c

\* str.lower()
Lower(s) == [i \in DOMAIN s |-> LowerChar(s[i])]

IsSpace(c) == c \in {" ", "\t", "\n"}

\* str.strip()
Strip(s) ==
    LET keep == {i \in DOMAIN s : ~IsSpace(s[i])}
    IN  IF keep = {} THEN <<>>
        ELSE LET lo == CHOOSE i \in keep : \A j \in keep : i <= j
                 hi == CHOOSE i \in keep : \A j \in keep : j <= i
             IN  SubSeq(s, lo, hi)

\* s.startswith(w)
StartsWith(s, w) == Len(w) <= Len(s) /\ SubSeq(s, 1, Len(w)) = w

\* w in s  (substring test)
Contains(s, w) ==
    \E i \in 0..(Len(s) - Len(w)) : SubSeq(s, i + 1, i + Len(w)) = w

\* str.replace(old, "") for a token that cannot overlap itself
RECURSIVE Remove(_, _)
Remove(s, old) ==
    IF Len(s) = 0 THEN <<>>
    ELSE IF StartsWith(s, old) /\ Len(old) > 0
         THEN Remove(SubSeq(s, Len(old) + 1, Len(s)), old)
         ELSE <<s[1]>> \o Remove(Tail(s), old)

\* ------------------------------------------------------------- classifier
QUESTION_KEYWORDS == <<
    <<"h","o","w">>, <<"w","h","a","t">>, <<"w","h","y">>,
    <<"w","h","e","n">>, <<"w","h","e","r","e">>, <<"c","a","n">>,
    <<"c","o","u","l","d">>, <<"w","o","u","l","d">>,
    <<"s","h","o","u","l","d">>, <<"d","o">>, <<"d","o","e","s">>,
    <<"d","i","d">>, <<"i","s">>, <<"a","r","e">>, <<"w","a","s">>,
    <<"w","e","r","e">>, <<"w","i","l","l">>, <<"h","a","v","e">>,
    <<"h","a","s">>, <<"h","a","d">> >>

QUESTION_INDICATORS == <<
    <<"r","e","c","o","m","m","e","n","d">>, <<"s","u","g","g","e","s","t">>,
    <<"a","d","v","i","c","e">>, <<"h","e","l","p">>,
    <<"t","e","l","l"," ","m","e">> >>

\* is_question that looks for the question mark at the end of the text only
is_question_MarkAtEnd(message) ==
    LET message_lower == Strip(Lower(message))
    IN  \/ (Len(message) > 0 /\ message[Len(message)] = "?")
        \/ \E k \in DOMAIN QUESTION_KEYWORDS :
              StartsWith(message_lower, QUESTION_KEYWORDS[k])
        \/ \E k \in DOMAIN QUESTION_INDICATORS :
              Contains(message_lower, QUESTION_INDICATORS[k])

is_question(message) ==
    LET message_lower == Strip(Lower(message))
    IN  \/ Contains(message, <<"?">>)
        \/ \E k \in DOMAIN QUESTION_KEYWORDS :
              StartsWith(message_lower, QUESTION_KEYWORDS[k])
        \/ \E k \in DOMAIN QUESTION_INDICATORS :
              Contains(message_lower, QUESTION_INDICATORS[k])

classify_message(message) ==
    IF is_question(message) THEN "question" ELSE "food_entry"

\* -------------------------------------------------------------- exceptions
\* An exception value: its class and str(e) as text fragments.
T(s) == [text |-> s]
Exc(type, msg) == [type |-> type, msg |-> msg]

\* subclasses of DietTrackerException (app/exceptions)
DietTrackerExceptions ==
    {"UserNotFoundError", "FoodAnalysisError", "InvalidFoodEntryError",
     "InvalidUserDataError", "OpenAIServiceError", "TwilioWebhookError"}

UserNotFoundError(phone_number) ==
    Exc("UserNotFoundError", <<T("User not found: "), [chars |-> phone_number]>>)

FoodAnalysisError(message) == Exc("FoodAnalysisError", message)

\* failure of an I/O call: the database driver or the OpenAI client raised
DBError == Exc("OperationalError", <<T("database error")>>)
APIError == Exc("APIError", <<T("openai error")>>)
\* pydantic rejects a MacroNutrients field that violates ge=0
ValidationError == Exc("ValidationError", <<T("validation error")>>)

\* ------------------------------------------------------------------ users
Phone1 == <<"+","1">>
Phone2 == <<"+","2">>

\* rows of the users table (never written by message handling)
Users == <<
    [id |-> 1, phone_number |-> Phone1,
     target_calories |-> Num(50), target_protein |-> Num(20),
     target_carbs |-> Num(20), target_fats |-> Num(10)],
    [id |-> 2, phone_number |-> Phone2,
     target_calories |-> Null, target_protein |-> Num(20),
     target_carbs |-> Null, target_fats |-> Null] >>

NoUser == [id |-> 0]

\* UserRepository.get_by_phone_number: scalar_one_or_none()
get_by_phone_number(phone_number) ==
    IF \E i \in DOMAIN Users : Users[i].phone_number = phone_number
    THEN Users[CHOOSE i \in DOMAIN Users :
                   Users[i].phone_number = phone_number]
    ELSE NoUser

\* get_float_value that puts a default target in the place of None
get_float_value_Default(value) == IF IsNum(value) THEN value.num ELSE 20

\* _extract_user_profile.get_float_value
get_float_value(value) == IF IsNum(value) THEN value.num ELSE 0

_extract_user_profile(user) ==
    [target_calories |-> get_float_value(user.target_calories),
     target_protein  |-> get_float_value(user.target_protein),
     target_carbs    |-> get_float_value(user.target_carbs),
     target_fats     |-> get_float_value(user.target_fats)]

\* ---------------------------------------------------- food analysis gateway
List(seq) == [list |-> seq]
IsList(x) == "list" \in DOMAIN x

Breakfast == <<"b","r","e","a","k","f","a","s","t">>
Lunch     == <<"l","u","n","c","h">>
Dinner    == <<"d","i","n","n","e","r">>
Snack     == <<"s","n","a","c","k">>
Drink     == <<"d","r","i","n","k">>

\* the list literal at openai_service.py:205 (and allowed_types at :25)
AllowedMealTypes == {Breakfast, Lunch, Dinner, Snack, Drink}

required_fields == <<"meal_type", "items", "total_nutrition">>
nutrition_fields == <<"calories", "protein", "carbs", "fats">>

ValueError(msg) == Exc("ValueError", <<T(msg)>>)

Ok == [ok |-> TRUE]
Raise(e) == [ok |-> FALSE, exc |-> e]

\* one round of "for field in nutrition_fields" fails on this field
FieldBad(n, k) ==
    \/ nutrition_fields[k] \notin DOMAIN n
    \/ ~IsNum(n[nutrition_fields[k]])

\* the first field, in list order, on which the loop raises
FirstBadField(n) ==
    CHOOSE k \in DOMAIN nutrition_fields :
        FieldBad(n, k) /\ \A j \in 1..(k - 1) : ~FieldBad(n, j)

\* the loop over nutrition_fields passes (item["nutrition"], total_nutrition)
NutritionComplete(n) == \A k \in DOMAIN nutrition_fields : ~FieldBad(n, k)

\* ConfidenceInRange without the upper end of the range
ConfidenceInRange_NoUpper(c) == IsNum(c) /\ 0 <= c.num

\* isinstance(c, (int, float)) and 0 <= c <= 1
ConfidenceInRange(c) == IsNum(c) /\ 0 <= c.num /\ c.num <= One

\* body of "for item in analysis['items']" (openai_service.py:181-196)
ValidateItem(item) ==
    IF "normalized_title" \notin DOMAIN item
    THEN Raise(ValueError("Each item must have a normalized_title"))
    ELSE IF "nutrition" \notin DOMAIN item
    THEN Raise(ValueError("Each item must have nutrition information"))
    ELSE IF "confidence_score" \notin DOMAIN item
    THEN Raise(ValueError("Each item must have a confidence_score"))
    ELSE IF ~NutritionComplete(item.nutrition)
    THEN IF nutrition_fields[FirstBadField(item.nutrition)]
                \notin DOMAIN item.nutrition
         THEN Raise(ValueError("Each item must have {field} in nutrition"))
         ELSE Raise(ValueError("Nutrition field {field} must be a number"))
    ELSE IF ~ConfidenceInRange(item.confidence_score)
    THEN Raise(ValueError("Confidence score must be a number between 0 and 1"))
    ELSE Ok

\* the meal type test of analyze_food_entry (openai_service.py:205)
MealTypeAccepted(meal_type) ==
    IsStr(meal_type) /\ meal_type.str \in AllowedMealTypes

\* FoodAnalysis.validate_meal_type: accepts by v.lower(), returns v.lower().
\* The gateway never builds a FoodAnalysis, so this validator does not run.
validate_meal_type(v) ==
    IF Lower(v) \notin AllowedMealTypes
    THEN Raise(ValueError("meal_type must be one of {allowed_types}"))
    ELSE [ok |-> TRUE, value |-> Lower(v)]

\* "Validate the response structure" (openai_service.py:169-208)
ValidateAnalysis(analysis) ==
    IF \E k \in DOMAIN required_fields :
           required_fields[k] \notin DOMAIN analysis
    THEN Raise(ValueError("Missing required field: {field}"))
    ELSE IF ~IsList(analysis.items) \/ Len(analysis.items.list) = 0
    THEN Raise(ValueError("Items must be a non-empty list"))
    ELSE IF \E i \in DOMAIN analysis.items.list :
                ~ValidateItem(analysis.items.list[i]).ok
    THEN ValidateItem(analysis.items.list[
             CHOOSE i \in DOMAIN analysis.items.list :
                 /\ ~ValidateItem(analysis.items.list[i]).ok
                 /\ \A j \in 1..(i - 1) :
                        ValidateItem(analysis.items.list[j]).ok])
    ELSE IF ~NutritionComplete(analysis.total_nutrition)
    THEN IF nutrition_fields[FirstBadField(analysis.total_nutrition)]
                \notin DOMAIN analysis.total_nutrition
         THEN Raise(ValueError("Missing {field} in total_nutrition"))
         ELSE Raise(ValueError("Total nutrition field {field} must be a number"))
    ELSE IF ~MealTypeAccepted(analysis.meal_type)
    THEN Raise(ValueError("Invalid meal type"))
    ELSE Ok

\* OpenAIService.analyze_food_entry on the outcome of the completion call:
\* the call raised, returned no content, returned text that is not JSON,
\* or returned a JSON object.
analyze_food_entry(out) ==
    IF out.kind = "error" THEN Raise(APIError)
    ELSE IF out.kind = "no_content"
    THEN Raise(ValueError("No response content received from OpenAI"))
    ELSE IF out.kind = "bad_json"
    THEN Raise(Exc("JSONDecodeError", <<T("Expecting value")>>))
    ELSE IF ValidateAnalysis(out.analysis).ok
    THEN [ok |-> TRUE, analysis |-> out.analysis]
    ELSE ValidateAnalysis(out.analysis)


\* ------------------------------------------------------------- food logs
\* clock ticks per calendar day
TicksPerDay == 2

\* func.date(created_at), created_at.date(), now().date()
date(ts) == ts \div TicksPerDay

\* item.get("notes") or analysis.get("notes")
NotesOf(analysis, item) ==
    LET a == IF "notes" \in DOMAIN item THEN item.notes ELSE Null
        b == IF "notes" \in DOMAIN analysis THEN analysis.notes ELSE Null
    IN  IF Truthy(a) THEN a ELSE b

\* NewFoodLog taking the calories from total_nutrition instead of the item
NewFoodLog_FromTotal(user_id, food_description, analysis, item) ==
    [id |-> 0, user_id |-> user_id, created_at |-> -1,
     food_description |-> food_description,
     normalized_title |-> item.normalized_title,
     meal_type |-> analysis.meal_type,
     calories |-> analysis.total_nutrition.calories.num,
     protein |-> item.nutrition.protein.num,
     carbs |-> item.nutrition.carbs.num,
     fats |-> item.nutrition.fats.num,
     confidence_score |-> item.confidence_score.num,
     notes |-> NotesOf(analysis, item)]

\* FoodLog(...) as built in create_food_log; id and created_at are assigned
\* by the database at INSERT (0 and -1 stand for "not yet assigned")
NewFoodLog(user_id, food_description, analysis, item) ==
    [id |-> 0, user_id |-> user_id, created_at |-> -1,
     food_description |-> food_description,
     normalized_title |-> item.normalized_title,
     meal_type |-> analysis.meal_type,
     calories |-> item.nutrition.calories.num,
     protein |-> item.nutrition.protein.num,
     carbs |-> item.nutrition.carbs.num,
     fats |-> item.nutrition.fats.num,
     confidence_score |-> item.confidence_score.num,
     notes |-> NotesOf(analysis, item)]

\* the loop "for item in analysis['items']" of create_food_log
BuildFoodLogs(user_id, food_description, analysis) ==
    [i \in DOMAIN analysis.items.list |->
        NewFoodLog(user_id, food_description, analysis,
                   analysis.items.list[i])]

\* INSERT of a flushed batch: autoincrement ids, created_at = now()
Inserted(rows, table, ts) ==
    [i \in DOMAIN rows |->
        [rows[i] EXCEPT !.id = Len(table) + i, !.created_at = ts]]

\* ------------------------------------------------------------ calculator
\* SumField that stops after the first row
SumField_First(rows, f) == IF Len(rows) = 0 THEN 0 ELSE rows[1][f]

\* sum(row.f for row in rows)
RECURSIVE SumField(_, _)
SumField(rows, f) ==
    IF Len(rows) = 0 THEN 0 ELSE rows[1][f] + SumField(Tail(rows), f)

\* MacroNutrients(...): every field is validated ge=0
MacroNutrients(calories, protein, carbs, fats) ==
    IF calories < 0 \/ protein < 0 \/ carbs < 0 \/ fats < 0
    THEN Raise(ValidationError)
    ELSE [ok |-> TRUE,
          value |-> [calories |-> calories, protein |-> protein,
                     carbs |-> carbs, fats |-> fats]]

calculate_meal_totals(logs) ==
    MacroNutrients(SumField(logs, "calories"), SumField(logs, "protein"),
                   SumField(logs, "carbs"), SumField(logs, "fats"))

\* RowsOn without the user_id condition
RowsOn_AnyUser(table, user_id, day) ==
    SelectSeq(table, LAMBDA r : date(r.created_at) = day)

\* WHERE user_id = :user_id AND date(created_at) = :date
RowsOn(table, user_id, day) ==
    SelectSeq(table, LAMBDA r : r.user_id = user_id /\ date(r.created_at) = day)

\* get_daily_totals on the committed table; SUM over no rows is NULL -> 0
get_daily_totals(table, user_id, day) ==
    LET rows == RowsOn(table, user_id, day)
    IN  MacroNutrients(SumField(rows, "calories"), SumField(rows, "protein"),
                       SumField(rows, "carbs"), SumField(rows, "fats"))

\* Max0 without the clamp
Max0_Unclamped(x) == x

\* max(0, x)
Max0(x) == IF x > 0 THEN x ELSE 0

calculate_daily_progress(consumed, targets) ==
    [consumed |-> consumed, targets |-> targets,
     remaining |-> [calories |-> Max0(targets.calories - consumed.calories),
                    protein |-> Max0(targets.protein - consumed.protein),
                    carbs |-> Max0(targets.carbs - consumed.carbs),
                    fats |-> Max0(targets.fats - consumed.fats)]]

\* ---- Python float arithmetic (IEEE 754 binary64, round to nearest even) on
\* operands that are exactly representable; a significand is a sequence of
\* bits, most significant first
\* number of significand bits of a float
Precision == 53

\* x / y = (a / b) * 2^e with 1 <= a / b < 2, as <<a, b, e>>
RECURSIVE Normalize(_, _, _)
Normalize(a, b, e) ==
    IF a < b THEN Normalize(2 * a, b, e - 1)
    ELSE IF a >= 2 * b THEN Normalize(a, 2 * b, e + 1)
    ELSE <<a, b, e>>

\* the k-bit binary numeral of d (0 <= d < 2^k)
BitsMSB(d, k) == [i \in 1..k |-> (d \div 2^(k - i)) % 2]

\* the shortest binary numeral of d >= 0 (empty for 0)
Numeral(d) ==
    BitsMSB(d, CHOOSE w \in 0..31 : d < 2^w /\ (w = 0 \/ 2^(w - 1) <= d))

\* the number a binary numeral of fewer than 31 bits stands for
RECURSIVE ToInt(_)
ToInt(bits) ==
    IF Len(bits) = 0 THEN 0
    ELSE IF Len(bits) = 1 THEN bits[1]
    ELSE LET h == Len(bits) \div 2
         IN  ToInt(SubSeq(bits, 1, Len(bits) - h)) * 2^h
                 + ToInt(SubSeq(bits, Len(bits) - h + 1, Len(bits)))

\* bits are produced and consumed Chunk at a time
Chunk == 8

\* n more bits of the binary expansion of r / b (r < b < 2^22), and the
\* remainder
RECURSIVE LongDiv(_, _, _)
LongDiv(r, b, n) ==
    IF n = 0 THEN <<<<>>, r>>
    ELSE LET k == IF n < Chunk THEN n ELSE Chunk
             v == r * 2^k
             rest == LongDiv(v % b, b, n - k)
         IN  <<BitsMSB(v \div b, k) \o rest[1], rest[2]>>

\* bits + 1; one bit longer when every bit is 1
Increment(bits) ==
    IF \A i \in DOMAIN bits : bits[i] = 1
    THEN <<1>> \o [i \in DOMAIN bits |-> 0]
    ELSE LET j == CHOOSE i \in DOMAIN bits :
                      bits[i] = 0 /\ \A l \in (i + 1)..Len(bits) : bits[l] = 1
         IN  [i \in DOMAIN bits |->
                 IF i < j THEN bits[i] ELSE IF i = j THEN 1 ELSE 0]

\* the float nearest to bits * 2^lsb (plus a nonzero rest below the last bit
\* when sticky), as <<significand, exponent of its last bit>>
RoundToFloat(bits, lsb, sticky) ==
    IF Len(bits) <= Precision THEN <<bits, lsb>>
    ELSE LET keep == SubSeq(bits, 1, Precision)
             guard == bits[Precision + 1]
             below == sticky \/ \E i \in (Precision + 2)..Len(bits) : bits[i] = 1
             up == guard = 1 /\ (below \/ keep[Precision] = 1)
             shift == lsb + (Len(bits) - Precision)
             inc == Increment(keep)
         IN  IF ~up THEN <<keep, shift>>
             ELSE IF Len(inc) > Precision
             THEN <<SubSeq(inc, 1, Precision), shift + 1>>
             ELSE <<inc, shift>>

\* x / y for integers 0 < x, y < 2^10
FloatDiv(x, y) ==
    LET n == Normalize(x, y, 0)
        d == LongDiv(n[1] - n[2], n[2], Precision)
    IN  RoundToFloat(<<1>> \o d[1], n[3] - Precision, d[2] # 0)

\* the numeral of bits * k + carry * 2^Len(bits), for 0 < k < 2^20
RECURSIVE Times(_, _, _)
Times(bits, k, carry) ==
    IF Len(bits) = 0 THEN Numeral(carry)
    ELSE LET n == Len(bits)
             w == IF n < Chunk THEN n ELSE Chunk
             v == ToInt(SubSeq(bits, n - w + 1, n)) * k + carry
         IN  Times(SubSeq(bits, 1, n - w), k, v \div 2^w)
                 \o BitsMSB(v % 2^w, w)

\* f * k for a float f > 0 and an integer 0 < k < 2^20
FloatTimes(f, k) == RoundToFloat(Times(f[1], k, 0), f[2], FALSE)

\* int(f) for a float 0 < f < 2^31: the bits above the binary point
FloatToInt(f) ==
    IF Len(f[1]) + f[2] <= 0 THEN 0
    ELSE IF f[2] >= 0 THEN ToInt(f[1] \o [i \in 1..f[2] |-> 0])
    ELSE ToInt(SubSeq(f[1], 1, Len(f[1]) + f[2]))

\* int((consumed / target) * 100) for target > 0
PercentOf(consumed, target) ==
    IF consumed = 0 THEN 0
    ELSE IF consumed > 0
    THEN FloatToInt(FloatTimes(FloatDiv(consumed, target), 100))
    ELSE -FloatToInt(FloatTimes(FloatDiv(-consumed, target), 100))

\* largest consumed amount passed to calculate_macro_percentage, in grams
MaxConsumed == 150

\* the positive targets of the users
UserTargets ==
    {Users[i][f].num : <<i, f>> \in
        {x \in (DOMAIN Users) \X {"target_calories", "target_protein",
                                  "target_carbs", "target_fats"} :
            IsNum(Users[x[1]][x[2]]) /\ Users[x[1]][x[2]].num > 0}}

\* PercentOf for the users' targets, worked out once
PercentTable ==
    [consumed \in 0..MaxConsumed, target \in UserTargets |->
        PercentOf(consumed, target)]

\* int((consumed / target) * 100) for target > 0, taken from the table where
\* the table has it
Percent(consumed, target) ==
    IF <<consumed, target>> \in DOMAIN PercentTable
    THEN PercentTable[consumed, target]
    ELSE PercentOf(consumed, target)

calculate_macro_percentage(consumed, target) ==
    IF target <= 0 THEN 0 ELSE Percent(consumed, target)

Rec(kind, amount) == [kind |-> kind, amount |-> amount]

\* generate_recommendations whose per-macro suggestions do not depend on the
\* remaining calories
generate_recommendations_Ungated(progress) ==
    LET remaining == progress.remaining
    IN  (IF remaining.protein > 0
         THEN <<Rec("protein", remaining.protein)>> ELSE <<>>)
        \o (IF remaining.carbs > 0
            THEN <<Rec("carbs", remaining.carbs)>> ELSE <<>>)
        \o (IF remaining.fats > 0
            THEN <<Rec("fats", remaining.fats)>> ELSE <<>>)
        \o (IF remaining.calories > 0 THEN <<>>
            ELSE <<Rec("calorie_target_reached", 0)>>)

generate_recommendations(progress) ==
    LET remaining == progress.remaining
    IN  IF remaining.calories > 0
        THEN (IF remaining.protein > 0
              THEN <<Rec("protein", remaining.protein)>> ELSE <<>>)
             \o (IF remaining.carbs > 0
                 THEN <<Rec("carbs", remaining.carbs)>> ELSE <<>>)
             \o (IF remaining.fats > 0
                 THEN <<Rec("fats", remaining.fats)>> ELSE <<>>)
        ELSE <<Rec("calorie_target_reached", 0)>>

\* ---------------------------------------------------------- legacy webhook
\* app/api/webhook.py, "Add recommendations based on remaining macros": the
\* remaining amounts are target - consumed, not clamped
inline_recommendations(daily, target) ==
    LET remaining_calories == target.calories - daily.calories
        remaining_protein == target.protein - daily.protein
        remaining_carbs == target.carbs - daily.carbs
        remaining_fats == target.fats - daily.fats
    IN  IF remaining_calories > 0
        THEN (IF remaining_protein > 0
              THEN <<Rec("protein", remaining_protein)>> ELSE <<>>)
             \o (IF remaining_carbs > 0
                 THEN <<Rec("carbs", remaining_carbs)>> ELSE <<>>)
             \o (IF remaining_fats > 0
                 THEN <<Rec("fats", remaining_fats)>> ELSE <<>>)
        ELSE <<Rec("calorie_target_reached", 0)>>

\* -------------------------------------------------------------- formatter
\* _calculate_percentage that never shows more than 100
_calculate_percentage_Capped(consumed, target) ==
    IF target <= 0 THEN 0
    ELSE IF Percent(consumed, target) > 100 THEN 100
    ELSE Percent(consumed, target)

_calculate_percentage(consumed, target) ==
    IF target <= 0 THEN 0 ELSE Percent(consumed, target)

\* f"{x:.0f}" of a non-negative value in tenths: round half to even
Fmt0(x) ==
    LET q == x \div 10
        r == x % 10
    IN  IF r > 5 \/ (r = 5 /\ q % 2 = 1) THEN q + 1 ELSE q

_format_daily_progress(progress) ==
    LET consumed == progress.consumed
        targets == progress.targets
    IN  [block |-> "progress",
         calories |-> <<Fmt0(consumed.calories), Fmt0(targets.calories),
             _calculate_percentage(consumed.calories, targets.calories)>>,
         protein |-> <<consumed.protein, targets.protein,
             _calculate_percentage(consumed.protein, targets.protein)>>,
         carbs |-> <<consumed.carbs, targets.carbs,
             _calculate_percentage(consumed.carbs, targets.carbs)>>,
         fats |-> <<consumed.fats, targets.fats,
             _calculate_percentage(consumed.fats, targets.fats)>>]

ItemBlock(log) ==
    [block |-> "item", title |-> log.normalized_title,
     calories |-> Fmt0(log.calories), protein |-> log.protein,
     carbs |-> log.carbs, fats |-> log.fats,
     note |-> IF Truthy(log.notes) THEN log.notes ELSE Null]

\* format_food_log_response that puts the meal-total block before the items
format_food_log_response_TotalsFirst(logs, meal_totals, daily_progress, recommendations) ==
    <<T("Logged your meal! Here's the breakdown:")>>
    \o <<[block |-> "meal_total", calories |-> Fmt0(meal_totals.calories),
          protein |-> meal_totals.protein, carbs |-> meal_totals.carbs,
          fats |-> meal_totals.fats]>>
    \o [i \in DOMAIN logs |-> ItemBlock(logs[i])]
    \o <<_format_daily_progress(daily_progress)>>
    \o (IF Len(recommendations) > 0
        THEN <<[block |-> "recommendations", items |-> recommendations]>>
        ELSE <<>>)

\* the reply is the sequence of its text blocks, in output order
format_food_log_response(logs, meal_totals, daily_progress, recommendations) ==
    <<T("Logged your meal! Here's the breakdown:")>>
    \o [i \in DOMAIN logs |-> ItemBlock(logs[i])]
    \o <<[block |-> "meal_total", calories |-> Fmt0(meal_totals.calories),
          protein |-> meal_totals.protein, carbs |-> meal_totals.carbs,
          fats |-> meal_totals.fats]>>
    \o <<_format_daily_progress(daily_progress)>>
    \o (IF Len(recommendations) > 0
        THEN <<[block |-> "recommendations", items |-> recommendations]>>
        ELSE <<>>)

format_error_response(error_message) ==
    <<T("Sorry, an error occurred: ")>> \o error_message

format_user_not_found_response ==
    <<T("User not found. Please set up your profile first.")>>

\* _create_twiml_response: a MessagingResponse holding one <Message>
_create_twiml_response(message) ==
    [kind |-> "response", media_type |-> "application/xml",
     messages |-> <<message>>]


\* ---------------------------------------------------------------- summary
\* rows of get_recent_food_logs_summary: the user's rows created in
\* [now - days, now] (days given in clock ticks)
RowsInWindow(table, user_id, ts, ticks) ==
    SelectSeq(table, LAMBDA r : /\ r.user_id = user_id
                                /\ r.created_at >= ts - ticks
                                /\ r.created_at <= ts)

\* one round of "for log in food_logs" filling daily_totals
AddToDay(daily_totals, log) ==
    LET d == date(log.created_at)
        day == IF d \in DOMAIN daily_totals THEN daily_totals[d]
               ELSE [calories |-> 0, protein |-> 0, carbs |-> 0, fats |-> 0,
                     items |-> <<>>]
    IN  [x \in DOMAIN daily_totals \cup {d} |->
            IF x # d THEN daily_totals[x]
            ELSE [calories |-> day.calories + log.calories,
                  protein |-> day.protein + log.protein,
                  carbs |-> day.carbs + log.carbs,
                  fats |-> day.fats + log.fats,
                  items |-> Append(day.items,
                      [title |-> log.normalized_title,
                       meal_type |-> log.meal_type,
                       calories |-> log.calories, protein |-> log.protein,
                       carbs |-> log.carbs, fats |-> log.fats])]]

\* one round of "for log in food_logs" filling meal_types
CountMealType(meal_types, log) ==
    [k \in DOMAIN meal_types \cup {log.meal_type} |->
        IF k = log.meal_type
        THEN (IF k \in DOMAIN meal_types THEN meal_types[k] ELSE 0) + 1
        ELSE meal_types[k]]

\* "for log in food_logs": the dictionary of the days
RECURSIVE DailyTotalsOf(_, _)
DailyTotalsOf(daily_totals, logs) ==
    IF Len(logs) = 0 THEN daily_totals
    ELSE DailyTotalsOf(AddToDay(daily_totals, Head(logs)), Tail(logs))

\* "for log in food_logs": the dictionary of the meal types
RECURSIVE MealTypesOf(_, _)
MealTypesOf(meal_types, logs) ==
    IF Len(logs) = 0 THEN meal_types
    ELSE MealTypesOf(CountMealType(meal_types, Head(logs)), Tail(logs))

\* sum(day[f] for day in daily_totals.values())
RECURSIVE SumDays(_, _)
SumDays(daily_totals, f) ==
    IF DOMAIN daily_totals = {} THEN 0
    ELSE LET d == CHOOSE x \in DOMAIN daily_totals : TRUE
         IN  daily_totals[d][f]
                 + SumDays([x \in DOMAIN daily_totals \ {d} |->
                               daily_totals[x]], f)

\* get_recent_food_logs_summary dividing by the days of the window
get_recent_food_logs_summary_PerWindowDay(table, user_id, ts, ticks) ==
    LET rows == RowsInWindow(table, user_id, ts, ticks)
        food_logs == [i \in DOMAIN rows |-> rows[Len(rows) + 1 - i]]
        daily_totals == DailyTotalsOf(<<>>, food_logs)
        Avg(f) == [sum |-> SumDays(daily_totals, f),
                   days |-> ticks \div TicksPerDay]
    IN  [daily_logs |-> daily_totals,
         averages |-> [calories |-> Avg("calories"), protein |-> Avg("protein"),
                       carbs |-> Avg("carbs"), fats |-> Avg("fats")],
         meal_type_distribution |-> MealTypesOf(<<>>, food_logs),
         total_logs |-> Len(food_logs),
         days_analyzed |-> Cardinality(DOMAIN daily_totals)]

\* FoodLogService.get_recent_food_logs_summary. The rows come newest first
\* (rows of one timestamp: the later insert first); an average is kept as
\* the exact fraction sum / days, 0 being 0 / 1
get_recent_food_logs_summary(table, user_id, ts, ticks) ==
    LET rows == RowsInWindow(table, user_id, ts, ticks)
        food_logs == [i \in DOMAIN rows |-> rows[Len(rows) + 1 - i]]
        daily_totals == DailyTotalsOf(<<>>, food_logs)
        total_days == Cardinality(DOMAIN daily_totals)
        Avg(f) == IF total_days > 0
                  THEN [sum |-> SumDays(daily_totals, f), days |-> total_days]
                  ELSE [sum |-> 0, days |-> 1]
    IN  [daily_logs |-> daily_totals,
         averages |-> [calories |-> Avg("calories"), protein |-> Avg("protein"),
                       carbs |-> Avg("carbs"), fats |-> Avg("fats")],
         meal_type_distribution |-> MealTypesOf(<<>>, food_logs),
         total_logs |-> Len(food_logs),
         days_analyzed |-> total_days]

\* -------------------------------------------------------------- recent logs
\* ORDER BY created_at DESC: every order the database may return the rows
\* in (rows of one timestamp come in any order)
OrderedDesc(rows) ==
    {[i \in DOMAIN rows |-> rows[p[i]]] :
        p \in {q \in [DOMAIN rows -> DOMAIN rows] :
                  /\ \A i, j \in DOMAIN rows : i # j => q[i] # q[j]
                  /\ \A i, j \in DOMAIN rows :
                         i < j => rows[q[i]].created_at >= rows[q[j]].created_at}}

\* LIMIT :limit. SQLite, the default DATABASE_URL, puts no upper bound on the
\* rows when the limit is negative; PostgreSQL rejects the statement, which
\* is the SELECT raising
Limit(rows, limit) ==
    IF limit < 0 \/ limit >= Len(rows) THEN rows ELSE SubSeq(rows, 1, limit)

\* FoodLogService.get_user_food_logs: the lists the SELECT may return
get_user_food_logs(table, user_id, limit) ==
    {Limit(s, limit) :
        s \in OrderedDesc(SelectSeq(table, LAMBDA r : r.user_id = user_id))}

\* the default window, days = 7, in clock ticks
SummaryWindow == 14

\* OpenAIService.analyze_diet_question on the outcome of the completion call
analyze_diet_question(out) ==
    IF out.kind = "error" THEN Raise(APIError)
    ELSE IF out.kind = "no_content" \/ Len(out.content) = 0
    THEN Raise(ValueError("No response content received from OpenAI"))
    ELSE [ok |-> TRUE, value |-> out.content]

\* ----------------------------------------------------------- orchestrator
WhatsappPrefix == <<"w","h","a","t","s","a","p","p",":">>

\* HandleMessageExcept without the "except Exception" clause: an exception
\* that is no DietTrackerException leaves handle_message
HandleMessageExcept_NoCatchAll(e) ==
    IF e.type \in DietTrackerExceptions
    THEN _create_twiml_response(format_error_response(e.msg))
    ELSE [kind |-> "raised", exc |-> e]

\* except DietTrackerException / except Exception of handle_message
HandleMessageExcept(e) ==
    IF e.type \in DietTrackerExceptions
    THEN _create_twiml_response(format_error_response(e.msg))
    ELSE _create_twiml_response(format_error_response(
             <<T("An unexpected error occurred. Please try again.")>>))

\* HandleUserNotFound without the inner try: UserNotFoundError reaches
\* "except DietTrackerException"
HandleUserNotFound_Generic(e) ==
    _create_twiml_response(format_error_response(e.msg))

\* except UserNotFoundError around the user lookup
HandleUserNotFound(e) ==
    _create_twiml_response(format_user_not_found_response)

\* WrapQuestion without the wrapping: the exception passes through
WrapQuestion_None(e) == e

\* except Exception of _handle_question
WrapQuestion(e) ==
    FoodAnalysisError(<<T("Failed to process question: ")>> \o e.msg)

\* except Exception of _handle_food_entry
WrapFoodEntry(e) ==
    FoodAnalysisError(<<T("Failed to process food entry: ")>> \o e.msg)

\* rollback that leaves the pending objects in the session
rollback_Keep(pending) == pending

\* AsyncSession.rollback(): the pending (added, uncommitted) objects go
rollback(pending) == <<>>

\* daily_targets of _handle_food_entry
DailyTargets(user_profile) ==
    MacroNutrients(user_profile.target_calories, user_profile.target_protein,
                   user_profile.target_carbs, user_profile.target_fats)


\* ------------------------------------------------------------------ inputs
\* the From values of inbound messages: two known senders (one with the
\* channel prefix, one without) and an unknown one
UnknownSender == WhatsappPrefix \o <<"+","9">>

FoodBody == <<"E","g","g",","," ","t","e","a">>
QuestionBody == <<"E","a","t"," ","e","g","g","?">>

Request(from, body) == [From |-> from, Body |-> body]

\* user 1 logs food over WhatsApp and asks questions over SMS; a stranger
\* writes over WhatsApp
Requests ==
    {Request(WhatsappPrefix \o Phone1, FoodBody),
     Request(Phone1, QuestionBody),
     Request(UnknownSender, FoodBody)}

Nutrition(c, p, cb, f) ==
    [calories |-> Num(c), protein |-> Num(p), carbs |-> Num(cb), fats |-> Num(f)]

Egg == [normalized_title |-> Str(<<"E","g","g">>),
        nutrition |-> Nutrition(30, 10, 0, 10),
        confidence_score |-> Num(9)]
Tea == [normalized_title |-> Str(<<"T","e","a">>),
        nutrition |-> Nutrition(35, 0, 5, 0),
        confidence_score |-> Num(10),
        notes |-> Str(<<"h","o","t">>)]

\* a one-item and a two-item analysis that pass validation; the second one's
\* total_nutrition is not the sum of its items
OneItem == [meal_type |-> Str(Snack), items |-> List(<<Egg>>),
            total_nutrition |-> Nutrition(30, 10, 0, 10)]
TwoItems == [meal_type |-> Str(Breakfast), items |-> List(<<Egg, Tea>>),
             total_nutrition |-> Nutrition(1, 1, 1, 1),
             notes |-> Str(<<"o","k">>)]

\* JSON objects the completion call can return (untrusted)
Analyses ==
    { OneItem, TwoItems,
      [OneItem EXCEPT !.meal_type = Str(<<"B","r","e","a","k","f","a","s","t">>)],
      [OneItem EXCEPT !.meal_type = Str(<<"b","r","u","n","c","h">>)],
      [items |-> List(<<Egg>>), total_nutrition |-> Nutrition(30, 10, 0, 10)],
      [meal_type |-> Str(Snack), items |-> List(<<Egg>>)],
      [OneItem EXCEPT !.items = List(<<>>)],
      [OneItem EXCEPT !.items = List(<<
          [normalized_title |-> Str(<<"E","g","g">>),
           nutrition |-> Nutrition(30, 10, 0, 10)]>>)],
      [TwoItems EXCEPT !.items = List(<<Egg,
          [Tea EXCEPT !.confidence_score = Num(15)]>>)],
      [OneItem EXCEPT !.items = List(<<
          [Egg EXCEPT !.confidence_score = Num(-1)]>>)],
      [OneItem EXCEPT !.items = List(<<
          [Egg EXCEPT !.nutrition = [calories |-> Num(30),
                                     protein |-> Num(10),
                                     carbs |-> Num(0)]]>>)],
      [TwoItems EXCEPT !.items = List(<<Egg,
          [Tea EXCEPT !.nutrition.calories = Str(<<"l","o","w">>)]>>)],
      [OneItem EXCEPT !.items = List(<<
          [Egg EXCEPT !.nutrition.calories = Num(-30)]>>)] }

\* outcomes of the completion call of analyze_food_entry
FoodOutcomes ==
    {[kind |-> "error"], [kind |-> "no_content"], [kind |-> "bad_json"]}
    \cup {[kind |-> "json", analysis |-> a] : a \in Analyses}

\* the outcomes that let a food message reach each later stage
CoreFoodOutcomes ==
    {[kind |-> "error"], [kind |-> "json", analysis |-> OneItem],
     [kind |-> "json", analysis |-> TwoItems]}

\* outcomes of the completion call of analyze_diet_question
QuestionOutcomes ==
    {[kind |-> "error"], [kind |-> "no_content"],
     [kind |-> "text", content |-> <<T("Add some protein.")>>]}

NoOutcome == [kind |-> "none"]
NoResult == [kind |-> "none"]
NoTotals == [calories |-> 0, protein |-> 0, carbs |-> 0, fats |-> 0]
NoSummary == [total_logs |-> -1]
NoCall == [fn |-> "none"]

\* ------------------------------------------------------------------- state
VARIABLES
    food_logs_table,  \* committed rows of table food_logs, in id order
    now,              \* server clock, in ticks
    pc,               \* per message: the await its task is suspended at
    From, Body,       \* per message: the form fields of the request
    user,             \* per message: the User row found for the sender
    session,          \* per message: objects added to its AsyncSession, uncommitted
    food_logs,        \* per message: the list food_logs of create_food_log
    meal_totals,      \* per message: meal_totals of _handle_food_entry
    summary,          \* per message: food_logs_summary of _handle_question
    result,           \* per message: what handle_message returned or raised
    aiOut,            \* per message: what the completion call produced
    menu,             \* the outcomes the food-analysis completion call can have
    committed,        \* per message: ids of the rows its commit inserted
    trace,            \* per message: the calls made so far, in order
    calc              \* the service call made outside message handling, if any

vars == <<food_logs_table, now, pc, From, Body, user, session, food_logs,
          meal_totals, summary, result, aiOut, menu, committed, trace, calc>>

\* the state when the requests have arrived and no handler has run yet
Start(requests, outcomes) ==
    /\ food_logs_table = <<>>
    /\ now = 1
    /\ pc = [m \in Msgs |-> "lookup"]
    /\ \E req \in requests :
          /\ From = [m \in Msgs |-> req[m].From]
          /\ Body = [m \in Msgs |-> req[m].Body]
    /\ menu = outcomes
    /\ user = [m \in Msgs |-> NoUser]
    /\ session = [m \in Msgs |-> <<>>]
    /\ food_logs = [m \in Msgs |-> <<>>]
    /\ meal_totals = [m \in Msgs |-> NoTotals]
    /\ summary = [m \in Msgs |-> NoSummary]
    /\ result = [m \in Msgs |-> NoResult]
    /\ aiOut = [m \in Msgs |-> NoOutcome]
    /\ committed = [m \in Msgs |-> <<>>]
    /\ trace = [m \in Msgs |-> <<>>]
    /\ calc = NoCall

\* two concurrent messages, each any of Requests; further messages come from
\* the stranger
Init ==
    Start({req \in [Msgs -> Requests] :
               \A m \in Msgs : m > 2 => req[m].From = UnknownSender},
          CoreFoodOutcomes)

\* handle_message returns res: the task ends and its locals are gone; the
\* session is left as the handler left it (pending)
Return(m, res, calls, pending) ==
    /\ pc' = [pc EXCEPT ![m] = "done"]
    /\ result' = [result EXCEPT ![m] = res]
    /\ trace' = [trace EXCEPT ![m] = @ \o calls]
    /\ session' = [session EXCEPT ![m] = pending]
    /\ food_logs' = [food_logs EXCEPT ![m] = <<>>]
    /\ meal_totals' = [meal_totals EXCEPT ![m] = NoTotals]
    /\ summary' = [summary EXCEPT ![m] = NoSummary]

\* the server clock advances
Tick ==
    /\ UNCHANGED calc
    /\ now < MaxTime
    /\ now' = now + 1
    /\ UNCHANGED <<food_logs_table, pc, From, Body, user, session, food_logs,
                   meal_totals, summary, result, aiOut, menu, committed, trace>>

\* handle_message up to its first branch: normalize the sender, look the
\* user up, extract the profile, classify the message
LookupUser(m) ==
    /\ UNCHANGED calc
    /\ pc[m] = "lookup"
    /\ LET phone_number == Remove(From[m], WhatsappPrefix)
           found == get_by_phone_number(phone_number)
       IN  \/ \* the SELECT raises
              /\ Return(m, HandleMessageExcept(DBError), <<"lookup_failed">>,
                        session[m])
              /\ UNCHANGED user
           \/ /\ found = NoUser
              /\ Return(m, HandleUserNotFound(UserNotFoundError(phone_number)),
                        <<"lookup">>, session[m])
              /\ UNCHANGED user
           \/ /\ found # NoUser
              /\ user' = [user EXCEPT ![m] = found]
              /\ pc' = [pc EXCEPT ![m] =
                           IF classify_message(Body[m]) = "question"
                           THEN "q_summary" ELSE "f_analyze"]
              /\ trace' = [trace EXCEPT ![m] = @ \o <<"lookup", "classify">>]
              /\ UNCHANGED <<session, food_logs, meal_totals, summary, result>>
    /\ UNCHANGED <<food_logs_table, now, From, Body, aiOut, menu, committed>>


\* _handle_question, first await: the 7-day summary is read
QSummary(m) ==
    /\ UNCHANGED calc
    /\ pc[m] = "q_summary"
    /\ \/ /\ summary' = [summary EXCEPT ![m] =
                 get_recent_food_logs_summary(food_logs_table, user[m].id,
                                              now, SummaryWindow)]
          /\ pc' = [pc EXCEPT ![m] = "q_ai"]
          /\ trace' = [trace EXCEPT ![m] = @ \o <<"summary">>]
          /\ UNCHANGED <<session, food_logs, meal_totals, result>>
       \/ \* the SELECT raises
          Return(m, HandleMessageExcept(WrapQuestion(DBError)),
                 <<"summary_failed", "wrap">>, session[m])
    /\ UNCHANGED <<food_logs_table, now, From, Body, user, aiOut, menu, committed>>

\* QAnswer that also stores the question as a row of the asking user
QAnswer_Stored(m) ==
    /\ UNCHANGED calc
    /\ pc[m] = "q_ai"
    /\ \E out \in QuestionOutcomes :
          LET r == analyze_diet_question(out)
          IN  /\ aiOut' = [aiOut EXCEPT ![m] = out]
              /\ IF r.ok
                 THEN Return(m, _create_twiml_response(r.value), <<"answer">>,
                             session[m])
                 ELSE Return(m, HandleMessageExcept(WrapQuestion(r.exc)),
                             <<"answer", "wrap">>, session[m])
    /\ food_logs_table' = food_logs_table \o
           Inserted(BuildFoodLogs(user[m].id, Body[m], OneItem),
                    food_logs_table, now)
    /\ UNCHANGED <<now, From, Body, user, menu, committed>>

\* _handle_question, second await: the question-answering call
QAnswer(m) ==
    /\ UNCHANGED calc
    /\ pc[m] = "q_ai"
    /\ \E out \in QuestionOutcomes :
          LET r == analyze_diet_question(out)
          IN  /\ aiOut' = [aiOut EXCEPT ![m] = out]
              /\ IF r.ok
                 THEN Return(m, _create_twiml_response(r.value), <<"answer">>,
                             session[m])
                 ELSE Return(m, HandleMessageExcept(WrapQuestion(r.exc)),
                             <<"answer", "wrap">>, session[m])
    /\ UNCHANGED <<food_logs_table, now, From, Body, user, menu, committed>>

\* create_food_log, first await: the analysis call, its validation, and the
\* db.add of one FoodLog per item
FAnalyze(m) ==
    /\ UNCHANGED calc
    /\ pc[m] = "f_analyze"
    /\ \E out \in menu :
          LET r == analyze_food_entry(out)
              rows == BuildFoodLogs(user[m].id, Body[m], r.analysis)
          IN  /\ aiOut' = [aiOut EXCEPT ![m] = out]
              /\ IF r.ok
                 THEN /\ session' = [session EXCEPT ![m] = rows]
                      /\ food_logs' = [food_logs EXCEPT ![m] = rows]
                      /\ pc' = [pc EXCEPT ![m] = "f_commit"]
                      /\ trace' = [trace EXCEPT ![m] =
                                      @ \o <<"analyze", "validated", "add">>]
                      /\ UNCHANGED <<meal_totals, summary, result>>
                 ELSE Return(m, HandleMessageExcept(WrapFoodEntry(r.exc)),
                             <<"analyze", "rollback", "create_raised", "wrap">>,
                             rollback(session[m]))
    /\ UNCHANGED <<food_logs_table, now, From, Body, user, menu, committed>>

\* FCommit that tries the commit a second time after a first failure
FCommit_Retry(m) ==
    /\ UNCHANGED calc
    /\ pc[m] = "f_commit"
    /\ \/ LET rows == Inserted(session[m], food_logs_table, now)
          IN  /\ food_logs_table' = food_logs_table \o rows
              /\ committed' = [committed EXCEPT ![m] =
                                  [i \in DOMAIN rows |-> rows[i].id]]
              /\ food_logs' = [food_logs EXCEPT ![m] =
                                  [i \in DOMAIN rows |->
                                      [@[i] EXCEPT !.id = rows[i].id]]]
              /\ session' = [session EXCEPT ![m] = <<>>]
              /\ pc' = [pc EXCEPT ![m] = "f_refresh"]
              /\ trace' = [trace EXCEPT ![m] = @ \o <<"commit">>]
              /\ UNCHANGED <<meal_totals, summary, result>>
       \/ /\ \A i \in DOMAIN trace[m] : trace[m][i] # "commit_failed"
          /\ trace' = [trace EXCEPT ![m] = @ \o <<"commit_failed">>]
          /\ UNCHANGED <<food_logs_table, committed, pc, session, food_logs,
                         meal_totals, summary, result>>
       \/ /\ \E i \in DOMAIN trace[m] : trace[m][i] = "commit_failed"
          /\ Return(m, HandleMessageExcept(WrapFoodEntry(DBError)),
                    <<"commit_failed", "rollback", "create_raised", "wrap">>,
                    rollback(session[m]))
          /\ UNCHANGED <<food_logs_table, committed>>
    /\ UNCHANGED <<now, From, Body, user, aiOut, menu>>

\* FCommit on one AsyncSession shared by all tasks: the commit flushes what
\* every task has added
FCommit_SharedSession(m) ==
    /\ UNCHANGED calc
    /\ pc[m] = "f_commit"
    /\ LET all[k \in 0..NumMsgs] ==
               IF k = 0 THEN <<>> ELSE all[k - 1] \o session[k]
           rows == Inserted(all[NumMsgs], food_logs_table, now)
           own == Inserted(session[m], food_logs_table, now)
       IN  /\ food_logs_table' = food_logs_table \o rows
           /\ committed' = [committed EXCEPT ![m] =
                               [i \in DOMAIN own |-> own[i].id]]
           /\ food_logs' = [food_logs EXCEPT ![m] =
                               [i \in DOMAIN own |->
                                   [@[i] EXCEPT !.id = own[i].id]]]
           /\ session' = [k \in Msgs |-> <<>>]
           /\ pc' = [pc EXCEPT ![m] = "f_refresh"]
           /\ trace' = [trace EXCEPT ![m] = @ \o <<"commit">>]
           /\ UNCHANGED <<meal_totals, summary, result>>
    /\ UNCHANGED <<now, From, Body, user, aiOut, menu>>

\* create_food_log, second await: db.commit() flushes the added objects in
\* one transaction; the objects get their ids, created_at stays unloaded
FCommit(m) ==
    /\ UNCHANGED calc
    /\ pc[m] = "f_commit"
    /\ \/ LET rows == Inserted(session[m], food_logs_table, now)
          IN  /\ food_logs_table' = food_logs_table \o rows
              /\ committed' = [committed EXCEPT ![m] =
                                  [i \in DOMAIN rows |-> rows[i].id]]
              /\ food_logs' = [food_logs EXCEPT ![m] =
                                  [i \in DOMAIN rows |->
                                      [@[i] EXCEPT !.id = rows[i].id]]]
              /\ session' = [session EXCEPT ![m] = <<>>]
              /\ pc' = [pc EXCEPT ![m] = "f_refresh"]
              /\ trace' = [trace EXCEPT ![m] = @ \o <<"commit">>]
              /\ UNCHANGED <<meal_totals, summary, result>>
       \/ \* the commit raises: except -> rollback -> raise
          /\ Return(m, HandleMessageExcept(WrapFoodEntry(DBError)),
                    <<"commit_failed", "rollback", "create_raised", "wrap">>,
                    rollback(session[m]))
          /\ UNCHANGED <<food_logs_table, committed>>
    /\ UNCHANGED <<now, From, Body, user, aiOut, menu>>

\* FRefresh whose failure branch deletes the rows the commit inserted
FRefresh_Compensate(m) ==
    /\ UNCHANGED calc
    /\ pc[m] = "f_refresh"
    /\ Return(m, HandleMessageExcept(WrapFoodEntry(DBError)),
              <<"refresh_failed", "rollback", "create_raised", "wrap">>,
              rollback(session[m]))
    /\ food_logs_table' = SelectSeq(food_logs_table,
           LAMBDA r : \A k \in DOMAIN committed[m] : committed[m][k] # r.id)
    /\ UNCHANGED <<now, From, Body, user, aiOut, menu, committed>>

\* create_food_log, the refresh loop and the return, then
\* calculate_meal_totals of _handle_food_entry
FRefresh(m) ==
    /\ UNCHANGED calc
    /\ pc[m] = "f_refresh"
    /\ \/ LET logs == [i \in DOMAIN food_logs[m] |->
                          food_logs_table[food_logs[m][i].id]]
              totals == calculate_meal_totals(logs)
          IN  IF totals.ok
              THEN /\ food_logs' = [food_logs EXCEPT ![m] = logs]
                   /\ meal_totals' = [meal_totals EXCEPT ![m] = totals.value]
                   /\ pc' = [pc EXCEPT ![m] = "f_daily"]
                   /\ trace' = [trace EXCEPT ![m] =
                         @ \o <<"refresh", "create_returned", "meal_totals">>]
                   /\ UNCHANGED <<session, summary, result>>
              ELSE Return(m, HandleMessageExcept(WrapFoodEntry(totals.exc)),
                     <<"refresh", "create_returned", "meal_totals", "wrap">>,
                     session[m])
       \/ \* a refresh raises: except -> rollback -> raise
          Return(m, HandleMessageExcept(WrapFoodEntry(DBError)),
                 <<"refresh_failed", "rollback", "create_raised", "wrap">>,
                 rollback(session[m]))
    /\ UNCHANGED <<food_logs_table, now, From, Body, user, aiOut, menu, committed>>

\* _handle_food_entry from get_daily_totals to the formatted reply, once the
\* SELECT has been executed: the reply and the calls made
DailyTotalsReply(table, usr, day, food_log, totals) ==
    LET consumed == get_daily_totals(table, usr.id, day)
        targets == DailyTargets(_extract_user_profile(usr))
        progress == calculate_daily_progress(consumed.value, targets.value)
        recommendations == generate_recommendations(progress)
    IN  IF ~consumed.ok
        THEN [result |-> HandleMessageExcept(WrapFoodEntry(consumed.exc)),
              calls |-> <<"daily_totals", "wrap">>]
        ELSE IF ~targets.ok
        THEN [result |-> HandleMessageExcept(WrapFoodEntry(targets.exc)),
              calls |-> <<"daily_totals", "wrap">>]
        ELSE [result |-> _create_twiml_response(
                             format_food_log_response(food_log, totals,
                                 progress, recommendations)),
              calls |-> <<"daily_totals", "daily_progress",
                          "recommendations", "format">>]

\* _handle_food_entry from get_daily_totals to the formatted reply
FDailyTotals(m) ==
    /\ UNCHANGED calc
    /\ pc[m] = "f_daily"
    /\ \/ Return(m,
                 DailyTotalsReply(food_logs_table, user[m], date(now),
                                  food_logs[m], meal_totals[m]).result,
                 DailyTotalsReply(food_logs_table, user[m], date(now),
                                  food_logs[m], meal_totals[m]).calls,
                 session[m])
       \/ \* the SELECT raises
          Return(m, HandleMessageExcept(WrapFoodEntry(DBError)),
                 <<"daily_totals_failed", "wrap">>, session[m])
    /\ UNCHANGED <<food_logs_table, now, From, Body, user, aiOut, menu, committed>>

\* the await of a completion call that never resumes: neither call site passes
\* a timeout and nothing wraps it in one, so the task stays suspended
AICallPending(m) ==
    /\ UNCHANGED calc
    /\ pc[m] \in {"q_ai", "f_analyze"}
    /\ pc' = [pc EXCEPT ![m] = "ai_pending"]
    /\ aiOut' = [aiOut EXCEPT ![m] = [kind |-> "pending"]]
    /\ UNCHANGED <<food_logs_table, now, From, Body, user, session, food_logs,
                   meal_totals, summary, result, menu, committed, trace>>

\* the steps of the task of message m
Step(m) ==
    \/ LookupUser(m) \/ QSummary(m) \/ QAnswer(m) \/ FAnalyze(m)
    \/ FCommit(m) \/ FRefresh(m) \/ FDailyTotals(m) \/ AICallPending(m)

Next ==
    \/ Tick
    \/ \E m \in Msgs : LookupUser(m)
    \/ \E m \in Msgs : QSummary(m)
    \/ \E m \in Msgs : QAnswer(m)
    \/ \E m \in Msgs : FAnalyze(m)
    \/ \E m \in Msgs : FCommit(m)
    \/ \E m \in Msgs : FRefresh(m)
    \/ \E m \in Msgs : FDailyTotals(m)
    \/ \E m \in Msgs : AICallPending(m)

Spec == Init /\ [][Next]_vars

\* the event loop runs every task that can take a step
SpecLive == Init /\ [][Next]_vars /\ \A m \in Msgs : WF_vars(Step(m))

\* one message of user 1 facing every outcome of the analysis call, the
\* other messages coming from the stranger
InitGateway ==
    Start({req \in [Msgs -> Requests] :
               \A m \in Msgs : m > 1 => req[m].From = UnknownSender},
          FoodOutcomes)

SpecGateway == InitGateway /\ [][Next]_vars

\* what arrives while user 1 logs food: more food of user 1, food of user 2
\* or a question of user 2
UserRequests ==
    {Request(WhatsappPrefix \o Phone1, FoodBody),
     Request(WhatsappPrefix \o Phone2, FoodBody),
     Request(Phone2, QuestionBody)}

\* message 1 is food of user 1, message 2 any of UserRequests, the other
\* messages come from the stranger
InitUsers ==
    Start({req \in [Msgs -> UserRequests \cup Requests] :
               /\ req[1] = Request(WhatsappPrefix \o Phone1, FoodBody)
               /\ \A m \in Msgs :
                     /\ m = 2 => req[m] \in UserRequests
                     /\ m > 2 => req[m].From = UnknownSender},
          CoreFoodOutcomes)

SpecUsers == InitUsers /\ [][Next]_vars

\* ------------------------------------------------- the services on their own
\* everything but calc: the store, the clock and the message tasks
others == <<food_logs_table, now, pc, From, Body, user, session, food_logs,
            meal_totals, summary, result, aiOut, menu, committed, trace>>

\* largest amount of a nutrient, in hundreds
MaxAmount == 2

\* MacroNutrients objects (every field >= 0)
MacroValues ==
    [calories : {100 * k : k \in 0..MaxAmount},
     protein : {100 * k : k \in 0..MaxAmount},
     carbs : {100 * k : k \in 0..MaxAmount},
     fats : {100 * k : k \in 0..MaxAmount}]

Call(fn, args, value) == [fn |-> fn, args |-> args, rets |-> <<value>>]

CallDailyProgress ==
    /\ calc = NoCall
    /\ \E consumed \in MacroValues, targets \in MacroValues :
          calc' = Call("calculate_daily_progress", <<consumed, targets>>,
                       calculate_daily_progress(consumed, targets))
    /\ UNCHANGED others

\* targets passed to calculate_macro_percentage
PercentTargets == {-5, 0, 20, 100}

CallMacroPercentage ==
    /\ calc = NoCall
    /\ \E consumed \in 0..MaxConsumed, target \in PercentTargets :
          calc' = Call("calculate_macro_percentage", <<consumed, target>>,
                       calculate_macro_percentage(consumed, target))
    /\ UNCHANGED others

\* the calculator's and the formatter's percentage of the same pair
CallPercentages ==
    /\ calc = NoCall
    /\ \E consumed \in 0..MaxConsumed, target \in PercentTargets :
          calc' = [fn |-> "percentages", args |-> <<consumed, target>>,
                   rets |-> <<calculate_macro_percentage(consumed, target),
                              _calculate_percentage(consumed, target)>>]
    /\ UNCHANGED others

\* the recommendations of the services and of the legacy handler for the
\* same daily totals and targets
CallBothRecommendations ==
    /\ calc = NoCall
    /\ \E consumed \in MacroValues, targets \in MacroValues :
          calc' = [fn |-> "recommendations", args |-> <<consumed, targets>>,
                   rets |-> <<generate_recommendations(
                                  calculate_daily_progress(consumed, targets)),
                              inline_recommendations(consumed, targets)>>]
    /\ UNCHANGED others

CallRecommendations ==
    /\ calc = NoCall
    /\ \E consumed \in MacroValues, targets \in MacroValues :
          LET progress == calculate_daily_progress(consumed, targets)
          IN  calc' = Call("generate_recommendations", <<progress>>,
                           generate_recommendations(progress))
    /\ UNCHANGED others

\* an analysis that passes validation with a negative calories value
NegativeItem ==
    [OneItem EXCEPT !.items = List(<<
        [Egg EXCEPT !.nutrition.calories = Num(-30)]>>)]

\* FoodLog rows as create_food_log commits them
SampleRows ==
    UNION {LET rows == Inserted(BuildFoodLogs(1, FoodBody, a), <<>>, 1)
           IN  {rows[i] : i \in DOMAIN rows} : a \in {TwoItems, NegativeItem}}

\* longest list of rows passed to a service, and most rows in the store
MaxRows == 3

CallMealTotals ==
    /\ calc = NoCall
    /\ \E n \in 0..MaxRows :
          \E logs \in [1..n -> SampleRows] :
              calc' = Call("calculate_meal_totals", <<logs>>,
                           calculate_meal_totals(logs))
    /\ UNCHANGED others

NextCalc ==
    \/ CallDailyProgress
    \/ CallMacroPercentage
    \/ CallRecommendations
    \/ CallMealTotals
    \/ CallPercentages
    \/ CallBothRecommendations

\* the state in which the services are called on their own: the requests
\* that have arrived are left unhandled
InitServices ==
    Start({[m \in Msgs |-> Request(UnknownSender, FoodBody)]}, CoreFoodOutcomes)

\* the calculator is called with inputs of its domain
SpecCalc == InitServices /\ [][NextCalc]_vars

\* a batch is committed by create_food_log (as FCommit does); calc holds the
\* reads made since the last write
StoreCommit ==
    /\ \E user_id \in {Users[i].id : i \in DOMAIN Users},
          a \in {OneItem, TwoItems, NegativeItem} :
          LET rows == Inserted(BuildFoodLogs(user_id, FoodBody, a),
                               food_logs_table, now)
          IN  /\ Len(food_logs_table) + Len(rows) <= MaxRows
              /\ food_logs_table' = food_logs_table \o rows
    /\ calc' = NoCall
    /\ UNCHANGED <<now, pc, From, Body, user, session, food_logs, meal_totals,
                   summary, result, aiOut, menu, committed, trace>>

\* CallDailyTotals that always asks for today's totals, whatever date is
\* passed
CallDailyTotals_Today ==
    /\ \E user_id \in {Users[i].id : i \in DOMAIN Users},
          day \in 0..date(MaxTime) :
          \E ret \in {get_daily_totals(food_logs_table, user_id, date(now)),
                       Raise(DBError)} :
              \/ /\ calc = NoCall
                 /\ calc' = Call("get_daily_totals", <<user_id, day>>, ret)
              \/ /\ calc.fn = "get_daily_totals"
                 /\ calc.args = <<user_id, day>>
                 /\ Len(calc.rets) = 1
                 /\ calc' = [calc EXCEPT !.rets = @ \o <<ret>>]
    /\ UNCHANGED others

\* get_daily_totals(user_id, date), called once or twice with the same
\* arguments; the SELECT returns or raises
CallDailyTotals ==
    /\ \E user_id \in {Users[i].id : i \in DOMAIN Users},
          day \in 0..date(MaxTime) :
          \E ret \in {get_daily_totals(food_logs_table, user_id, day),
                       Raise(DBError)} :
              \/ /\ calc = NoCall
                 /\ calc' = Call("get_daily_totals", <<user_id, day>>, ret)
              \/ /\ calc.fn = "get_daily_totals"
                 /\ calc.args = <<user_id, day>>
                 /\ Len(calc.rets) = 1
                 /\ calc' = [calc EXCEPT !.rets = @ \o <<ret>>]
    /\ UNCHANGED others

\* get_recent_food_logs_summary(user_id, days) at the present time
CallSummary ==
    /\ calc = NoCall
    /\ \E user_id \in {Users[i].id : i \in DOMAIN Users}, days \in {0, 7} :
          \E ret \in {[ok |-> TRUE,
                        value |-> get_recent_food_logs_summary(
                            food_logs_table, user_id, now, days * TicksPerDay)],
                       Raise(DBError)} :
              calc' = Call("get_recent_food_logs_summary",
                           <<user_id, days, now>>, ret)
    /\ UNCHANGED others

\* limit values of a request: the default, small ones, and a negative one,
\* which the endpoint passes on as it does any int
Limits == {-1, 0, 1, 2, 10}

\* get_user_food_logs(user_id, limit); the SELECT returns or raises
CallUserFoodLogs ==
    /\ calc = NoCall
    /\ \E user_id \in {Users[i].id : i \in DOMAIN Users}, limit \in Limits :
          \E ret \in {[ok |-> TRUE, value |-> logs] :
                         logs \in get_user_food_logs(food_logs_table, user_id,
                                                     limit)}
                      \cup {Raise(DBError)} :
              calc' = Call("get_user_food_logs", <<user_id, limit>>, ret)
    /\ UNCHANGED others

\* consumed amounts handed to the formatter: nothing, one meal, more than
\* the targets
FormatConsumed ==
    {NoTotals,
     [calories |-> 65, protein |-> 10, carbs |-> 5, fats |-> 10],
     [calories |-> 130, protein |-> 23, carbs |-> 29, fats |-> 20]}

\* format_food_log_response(food_logs, meal_totals, daily_progress,
\* recommendations) on up to two logged items, the targets of either user,
\* and no recommendations or those of the progress
CallFormat ==
    /\ calc = NoCall
    /\ \E n \in 0..2, consumed \in FormatConsumed, u \in DOMAIN Users :
          \E logs \in [1..n -> SampleRows], with_recs \in BOOLEAN :
              LET progress == calculate_daily_progress(consumed,
                      DailyTargets(_extract_user_profile(Users[u])).value)
                  recs == IF with_recs THEN generate_recommendations(progress)
                          ELSE <<>>
              IN  calc' = Call("format_food_log_response",
                               <<logs, consumed, progress, recs>>,
                               format_food_log_response(logs, consumed,
                                                        progress, recs))
    /\ UNCHANGED others

NextFormat == CallFormat

\* the formatter is called on its own
SpecFormat == InitServices /\ [][NextFormat]_vars

\* pieces of message texts: nothing, white space, a question mark, keywords
\* in either case, an advice-seeking phrase, and food
Pieces ==
    {<<>>,
     <<" ">>,
     <<"?">>,
     <<"\n">>,
     <<"H","a","d">>,
     <<"h","a","d">>,
     <<"I"," ","h","a","d"," ","a"," ","b","a","n","a","n","a">>,
     <<"d","o","n","u","t">>,
     <<"h","e","l","p">>,
     <<"T","e","l","l"," ","m","e">>,
     <<"e","g","g">>,
     <<"I","S">>}

\* the texts classify_message is called with
Texts == {a \o b \o c : a, b, c \in Pieces}

CallClassify ==
    /\ calc = NoCall
    /\ \E message \in Texts :
          calc' = Call("classify_message", <<message>>,
                       classify_message(message))
    /\ UNCHANGED others

NextClassify == CallClassify

\* the classifier is called with any of Texts
SpecClassify == InitServices /\ [][NextClassify]_vars

NextStore ==
    \/ Tick
    \/ StoreCommit
    \/ CallDailyTotals
    \/ CallSummary
    \/ CallUserFoodLogs

\* the store fills up while the read services are called
SpecStore == InitServices /\ [][NextStore]_vars

\* ================================================================= claims
Has(tr, ev) == \E i \in DOMAIN tr : tr[i] = ev
IsPrefix(a, b) == Len(a) <= Len(b) /\ SubSeq(b, 1, Len(a)) = a

\* the body of the one message of a returned response
ReplyBody(m) == result[m].messages[1]
ErrorPrefix == T("Sorry, an error occurred: ")
BreakdownHeader == T("Logged your meal! Here's the breakdown:")

\* the table rows inserted by the commit of message m
RowsFrom(m) ==
    {i \in DOMAIN food_logs_table :
        \E k \in DOMAIN committed[m] : committed[m][k] = i}

\* the number of items of the analysis create_food_log got for message m
ItemCount(m) ==
    IF Has(trace[m], "validated") THEN Len(aiOut[m].analysis.items.list) ELSE 0

\* ---- C1
\* C1: once handle_message has finished a message, whatever failed on the
\* way, it has returned a TwiML response with exactly one message whose body
\* is not empty, and no exception has left the handler; before that there is
\* no reply.
TheoremC1 ==
    \A m \in Msgs :
        /\ pc[m] # "done" => result[m] = NoResult
        /\ pc[m] = "done" =>
              /\ result[m].kind = "response"
              /\ result[m].media_type = "application/xml"
              /\ Len(result[m].messages) = 1
              /\ Len(ReplyBody(m)) > 0

\* a message whose user lookup raised a database error has been answered
WitnessC1 ==
    \E m \in Msgs :
        /\ pc[m] = "done"
        /\ trace[m] = <<"lookup_failed">>
        /\ result[m].kind = "response"
        /\ ReplyBody(m) = <<ErrorPrefix,
               T("An unexpected error occurred. Please try again.")>>

\* ---- C2
\* C2: the rows of one message are in the table all together or not at all,
\* all of them once create_food_log has returned and none of them once it
\* has raised.
CounterexampleC2 ==
    \A m \in Msgs :
        LET n == Cardinality(RowsFrom(m))
        IN  /\ n = 0 \/ n = ItemCount(m)
            /\ Has(trace[m], "create_returned") => n = ItemCount(m)
            /\ Has(trace[m], "create_raised") => n = 0

\* ---- C3
\* what C3 lists as failing validation, stated on the AI outcome itself
RejectedPerC3(out) ==
    \/ out.kind = "no_content"
    \/ /\ out.kind = "json"
       /\ LET a == out.analysis
          IN  \/ \E f \in {"meal_type", "items", "total_nutrition"} :
                    f \notin DOMAIN a
              \/ ~IsStr(a.meal_type)
              \/ Lower(a.meal_type.str) \notin AllowedMealTypes
              \/ Len(a.items.list) = 0
              \/ \E i \in DOMAIN a.items.list :
                    LET it == a.items.list[i]
                    IN  \/ "confidence_score" \notin DOMAIN it
                        \/ \E f \in {"calories", "protein", "carbs", "fats"} :
                              f \notin DOMAIN it.nutrition
                        \/ \E f \in DOMAIN it.nutrition : ~IsNum(it.nutrition[f])
                        \/ ~IsNum(it.confidence_score)
                        \/ it.confidence_score.num < 0
                        \/ it.confidence_score.num > One

\* C3: a food message whose AI response fails validation ends at once with
\* the food-analysis error reply: the analysis was never accepted,
\* create_food_log raised, nothing was added to the session and no row of
\* the message is in the table.
TheoremC3 ==
    \A m \in Msgs :
        (Has(trace[m], "analyze") /\ RejectedPerC3(aiOut[m])) =>
            /\ pc[m] = "done"
            /\ ~Has(trace[m], "validated")
            /\ Has(trace[m], "create_raised")
            /\ session[m] = <<>>
            /\ committed[m] = <<>>
            /\ RowsFrom(m) = {}
            /\ result[m].kind = "response"
            /\ IsPrefix(<<ErrorPrefix, T("Failed to process food entry: ")>>,
                        ReplyBody(m))

\* a two-item response whose second item alone is malformed was rejected
WitnessC3 ==
    \E m \in Msgs :
        /\ Has(trace[m], "analyze")
        /\ aiOut[m].kind = "json"
        /\ RejectedPerC3(aiOut[m])
        /\ Len(aiOut[m].analysis.items.list) = 2
        /\ pc[m] = "done"
        /\ food_logs_table = <<>>

\* ---- C4
\* the analysis passes validation once its meal_type is lower-cased
ValidUpToCase(a) ==
    /\ "meal_type" \in DOMAIN a
    /\ IsStr(a.meal_type)
    /\ Lower(a.meal_type.str) \in AllowedMealTypes
    /\ ValidateAnalysis([a EXCEPT !.meal_type = Str(Lower(a.meal_type.str))]).ok

\* C4: an AI response whose meal_type is one of the five values in any
\* letter case is accepted, and the rows carry the lowercase meal_type.
CounterexampleC4 ==
    \A m \in Msgs :
        (/\ Has(trace[m], "analyze")
         /\ aiOut[m].kind = "json"
         /\ ValidUpToCase(aiOut[m].analysis)) =>
            /\ Has(trace[m], "validated")
            /\ \A i \in RowsFrom(m) :
                  food_logs_table[i].meal_type
                      = Str(Lower(aiOut[m].analysis.meal_type.str))

\* ---- C5
\* C5: every row of the table has non-negative calories, protein, carbs and
\* fats, a confidence_score within [0, 1] and one of the five meal types.
CounterexampleC5 ==
    \A i \in DOMAIN food_logs_table :
        LET row == food_logs_table[i]
        IN  /\ row.calories >= 0 /\ row.protein >= 0
            /\ row.carbs >= 0 /\ row.fats >= 0
            /\ 0 <= row.confidence_score /\ row.confidence_score <= One
            /\ \E t \in AllowedMealTypes : row.meal_type = Str(t)

\* ---- C6
\* the id of the user whose phone number is the normalized sender
SenderId(m) ==
    LET u == {i \in DOMAIN Users :
                 Users[i].phone_number = Remove(From[m], WhatsappPrefix)}
    IN  IF u = {} THEN 0 ELSE Users[CHOOSE i \in u : TRUE].id

\* C6: a message that got the success breakdown has committed rows, and the
\* rows a message committed are exactly one per item of its analysis, with
\* ids ascending in item order, each with the sender's user id, the
\* analysis' meal_type, the message text as description and the title,
\* nutrition and confidence_score of its own item.
TheoremC6 ==
    \A m \in Msgs :
        /\ (pc[m] = "done" /\ result[m].kind = "response"
                /\ ReplyBody(m)[1] = BreakdownHeader) => committed[m] # <<>>
        /\ committed[m] # <<>> =>
              LET a == aiOut[m].analysis
                  items == a.items.list
                  ids == committed[m]
              IN  /\ Len(items) >= 1
                  /\ Len(ids) = Len(items)
                  /\ Cardinality(RowsFrom(m)) = Len(items)
                  /\ \A i \in DOMAIN ids :
                        LET row == food_logs_table[ids[i]]
                        IN  /\ i > 1 => ids[i - 1] < ids[i]
                            /\ row.id = ids[i]
                            /\ row.user_id = SenderId(m)
                            /\ row.meal_type = a.meal_type
                            /\ row.food_description = Body[m]
                            /\ row.normalized_title = items[i].normalized_title
                            /\ row.calories = items[i].nutrition.calories.num
                            /\ row.protein = items[i].nutrition.protein.num
                            /\ row.carbs = items[i].nutrition.carbs.num
                            /\ row.fats = items[i].nutrition.fats.num
                            /\ row.confidence_score
                                   = items[i].confidence_score.num

\* a message with a two-item analysis got its success breakdown
WitnessC6 ==
    \E m \in Msgs :
        /\ pc[m] = "done"
        /\ result[m].kind = "response"
        /\ ReplyBody(m)[1] = BreakdownHeader
        /\ Len(committed[m]) = 2

\* ---- C7
\* no user has the normalized sender of message m as phone number
SenderUnknown(m) ==
    \A i \in DOMAIN Users :
        Users[i].phone_number # Remove(From[m], WhatsappPrefix)

\* C7: for a message whose normalized sender matches no user the only call
\* ever made is the user lookup: it is never classified, no AI call is made,
\* no food log is read, added or committed; and once the lookup has found no
\* user the handler is finished with the fixed not-found reply.
TheoremC7 ==
    \A m \in Msgs :
        SenderUnknown(m) =>
            /\ trace[m] \in {<<>>, <<"lookup">>, <<"lookup_failed">>}
            /\ aiOut[m] = NoOutcome
            /\ summary[m] = NoSummary
            /\ session[m] = <<>>
            /\ committed[m] = <<>>
            /\ trace[m] = <<"lookup">> =>
                  /\ pc[m] = "done"
                  /\ result[m] =
                        [kind |-> "response", media_type |-> "application/xml",
                         messages |-> << <<T(
                           "User not found. Please set up your profile first."
                           )>> >>]

\* a stranger's message was looked up and answered
WitnessC7 ==
    \E m \in Msgs :
        SenderUnknown(m) /\ trace[m] = <<"lookup">> /\ pc[m] = "done"

\* ---- C8
\* the stages of the food-entry branch, in the order the claim gives
Stages == <<"analyze", "persist", "meal_totals", "daily_totals",
            "daily_progress", "recommendations", "format">>

\* the stage a call belongs to (an attempt counts whether or not it failed)
StageOf(ev) ==
    IF ev \in {"commit", "commit_failed"} THEN "persist"
    ELSE IF ev = "daily_totals_failed" THEN "daily_totals"
    ELSE ev

\* the stages message m went through, in order, with repetitions
StagesRun(m) ==
    SelectSeq([i \in DOMAIN trace[m] |-> StageOf(trace[m][i])],
              LAMBDA e : \E k \in DOMAIN Stages : Stages[k] = e)

\* C8: the stages a message has gone through form a prefix of analyze,
\* persist, meal totals, daily totals, daily progress, recommendations,
\* format (so each ran at most once, one AI call and one commit attempt at
\* most), and a commit is attempted only after the analysis was validated.
TheoremC8 ==
    \A m \in Msgs :
        /\ IsPrefix(StagesRun(m), Stages)
        /\ \A i \in DOMAIN trace[m] :
              StageOf(trace[m][i]) = "persist" =>
                  \E j \in 1..(i - 1) : trace[m][j] = "validated"

\* a food message went through all seven stages
WitnessC8 == \E m \in Msgs : pc[m] = "done" /\ StagesRun(m) = Stages

\* ---- C9
\* C9: a finished question message made each of its calls at most once; if
\* both succeeded the reply is the text the AI returned, unchanged; if the
\* summary or the AI call failed the reply is the error reply carrying the
\* wrapped "Failed to process question" message.
TheoremC9 ==
    \A m \in Msgs :
        (/\ pc[m] = "done"
         /\ Has(trace[m], "classify")
         /\ classify_message(Body[m]) = "question") =>
            /\ result[m].kind = "response"
            /\ \/ /\ trace[m] = <<"lookup", "classify", "summary", "answer">>
                  /\ aiOut[m].kind = "text"
                  /\ result[m].messages = <<aiOut[m].content>>
               \/ /\ trace[m] = <<"lookup", "classify", "summary", "answer",
                                  "wrap">>
                  /\ aiOut[m].kind \in {"error", "no_content"}
                  /\ IsPrefix(<<ErrorPrefix, T("Failed to process question: ")>>,
                              ReplyBody(m))
               \/ /\ trace[m] = <<"lookup", "classify", "summary_failed",
                                  "wrap">>
                  /\ aiOut[m] = NoOutcome
                  /\ IsPrefix(<<ErrorPrefix, T("Failed to process question: ")>>,
                              ReplyBody(m))

\* one question was answered verbatim and another one failed at the summary
WitnessC9 ==
    /\ \E m \in Msgs :
          /\ pc[m] = "done"
          /\ trace[m] = <<"lookup", "classify", "summary", "answer">>
    /\ \E m \in Msgs :
          /\ pc[m] = "done"
          /\ trace[m] = <<"lookup", "classify", "summary_failed", "wrap">>

\* ---- C10
\* C10: when the commit of a batch fails, the session is rolled back (no
\* pending object, no row of the message in the table), create_food_log
\* raises, and the message ends with the error reply carrying the wrapped
\* database error, not with the success breakdown.
TheoremC10 ==
    \A m \in Msgs :
        Has(trace[m], "commit_failed") =>
            /\ pc[m] = "done"
            /\ trace[m] = <<"lookup", "classify", "analyze", "validated", "add",
                            "commit_failed", "rollback", "create_raised",
                            "wrap">>
            /\ session[m] = <<>>
            /\ committed[m] = <<>>
            /\ RowsFrom(m) = {}
            /\ result[m].kind = "response"
            /\ ReplyBody(m) = <<ErrorPrefix, T("Failed to process food entry: "),
                                T("database error")>>
            /\ ReplyBody(m)[1] # BreakdownHeader

\* the commit of a batch failed while another message's rows are committed
WitnessC10 ==
    \E m \in Msgs :
        /\ Has(trace[m], "commit_failed")
        /\ pc[m] = "done"
        /\ food_logs_table # <<>>

\* ---- C11
\* C11: every inbound message eventually receives its reply; a completion
\* call that never completes does not leave the handler waiting forever.
CounterexampleC11 == \A m \in Msgs : <>(pc[m] = "done")

\* ---- C12
\* C12: rows of food_logs are append-only under message handling: in every
\* step, whatever the handler does (question, food entry, unknown sender,
\* failure, rollback), each row of the store stays at its place with all its
\* field values, and the store never gets shorter.
TheoremC12 ==
    [][/\ Len(food_logs_table') >= Len(food_logs_table)
       /\ \A i \in DOMAIN food_logs_table :
              food_logs_table'[i] = food_logs_table[i]]_vars

\* one message's rows are in the store, and another message has gone through
\* a rollback after its own commit (its refresh failed)
WitnessC12 ==
    \E m, k \in Msgs :
        /\ m # k
        /\ RowsFrom(m) # {}
        /\ RowsFrom(k) # {}
        /\ Has(trace[k], "refresh_failed")
        /\ pc[k] = "done"

\* ---- C13
\* the number of rows committed by the messages 1..k
CommittedUpTo(k) ==
    LET n[j \in 0..NumMsgs] ==
            IF j = 0 THEN 0 ELSE n[j - 1] + Len(committed[j])
    IN  n[k]

\* C13: tasks of different messages share no mutable state: at every point of
\* every interleaving, what a task has added and not yet committed belongs to
\* its own sender; a committed batch is in the store in full, each row with
\* its own sender's user id and its own item's values, whatever the other
\* tasks have done since (commit, failure, rollback); batches of different
\* messages do not overlap, and the store holds nothing but these batches.
TheoremC13 ==
    /\ Len(food_logs_table) = CommittedUpTo(NumMsgs)
    /\ \A m \in Msgs :
          /\ \A i \in DOMAIN session[m] : session[m][i].user_id = SenderId(m)
          /\ pc[m] = "f_commit" => Len(session[m]) = ItemCount(m)
          /\ \A k \in Msgs \ {m} : RowsFrom(m) \cap RowsFrom(k) = {}
          /\ Cardinality(RowsFrom(m)) = Len(committed[m])
          /\ committed[m] # <<>> =>
                /\ Len(committed[m]) = ItemCount(m)
                /\ \A i \in DOMAIN committed[m] :
                      LET row == food_logs_table[committed[m][i]]
                          item == aiOut[m].analysis.items.list[i]
                      IN  /\ row.user_id = SenderId(m)
                          /\ row.food_description = Body[m]
                          /\ row.normalized_title = item.normalized_title
                          /\ row.calories = item.nutrition.calories.num
                          /\ row.protein = item.nutrition.protein.num
                          /\ row.carbs = item.nutrition.carbs.num
                          /\ row.fats = item.nutrition.fats.num

\* two different users' two-item batches are both in the store, the first
\* message having committed after the second one, whose handling then failed
WitnessC13 ==
    /\ SenderId(1) # SenderId(2)
    /\ Len(committed[1]) = 2
    /\ Len(committed[2]) = 2
    /\ committed[2][2] < committed[1][1]
    /\ Has(trace[2], "refresh_failed")
    /\ pc[1] = "done" /\ pc[2] = "done"

\* ---- C14
\* the fields of MacroNutrients
MacroFields == {"calories", "protein", "carbs", "fats"}

\* C14: calculate_daily_progress returns consumed and targets unchanged and,
\* for each of calories, protein, carbs and fats on its own, remaining =
\* target - consumed when that is positive and 0 otherwise; remaining is
\* never negative.
TheoremC14 ==
    calc.fn = "calculate_daily_progress" =>
        LET consumed == calc.args[1]
            targets == calc.args[2]
            progress == calc.rets[1]
        IN  /\ progress.consumed = consumed
            /\ progress.targets = targets
            /\ \A f \in MacroFields :
                  /\ progress.remaining[f] >= 0
                  /\ targets[f] > consumed[f] =>
                        progress.remaining[f] = targets[f] - consumed[f]
                  /\ targets[f] <= consumed[f] => progress.remaining[f] = 0

\* consumed 200 against a target of 100 calories gave 0 remaining, while
\* protein of the same call is still short of its target
WitnessC14 ==
    /\ calc.fn = "calculate_daily_progress"
    /\ calc.args[1].calories = 200 /\ calc.args[2].calories = 100
    /\ calc.rets[1].remaining.calories = 0
    /\ calc.rets[1].remaining.protein = 100

\* ---- C15
\* C15: calculate_macro_percentage(consumed, target) is 0 whenever
\* target <= 0 and otherwise the integer part of consumed / target * 100,
\* not capped at 100.
CounterexampleC15 ==
    calc.fn = "calculate_macro_percentage" =>
        LET consumed == calc.args[1]
            target == calc.args[2]
        IN  calc.rets[1] = IF target <= 0 THEN 0
                           ELSE (consumed * 100) \div target

\* ---- C16
\* C16: with remaining calories > 0, generate_recommendations emits one
\* suggestion for each of protein, carbs, fats whose remaining amount is > 0,
\* in that order (0 to 3 lines) and no target-reached line; with remaining
\* calories <= 0 it emits exactly the one target-reached line and no
\* per-macro suggestion, whatever remains of protein, carbs and fats.
TheoremC16 ==
    calc.fn = "generate_recommendations" =>
        LET remaining == calc.args[1].remaining
            recs == calc.rets[1]
            kinds == [i \in DOMAIN recs |-> recs[i].kind]
        IN  IF remaining.calories > 0
            THEN /\ kinds = SelectSeq(<<"protein", "carbs", "fats">>,
                                      LAMBDA f : remaining[f] > 0)
                 /\ \A i \in DOMAIN recs : recs[i].amount = remaining[kinds[i]]
            ELSE kinds = <<"calorie_target_reached">>

\* the calorie target is reached while protein and carbs remain: the reply
\* is the target-reached line alone
WitnessC16 ==
    /\ calc.fn = "generate_recommendations"
    /\ calc.args[1].remaining.calories = 0
    /\ calc.args[1].remaining.protein > 0
    /\ calc.args[1].remaining.carbs > 0
    /\ Len(calc.rets[1]) = 1

\* ---- C17
\* the sum of field f over the rows at the positions idx of rows
Total(rows, idx, f) ==
    LET t[j \in 0..Len(rows)] ==
            IF j = 0 THEN 0
            ELSE t[j - 1] + (IF j \in idx THEN rows[j][f] ELSE 0)
    IN  t[Len(rows)]

\* every macro of the row is >= 0, as the FoodLog invariant demands
NonNegative(row) == \A f \in MacroFields : row[f] >= 0

OnDay(user_id, day) ==
    {j \in DOMAIN food_logs_table :
        /\ food_logs_table[j].user_id = user_id
        /\ food_logs_table[j].created_at \in
               (day * TicksPerDay)..(day * TicksPerDay + TicksPerDay - 1)}

ZeroMacros == [calories |-> 0, protein |-> 0, carbs |-> 0, fats |-> 0]

Executed(ret) == ret.ok \/ ret.exc # DBError

SumOf(dict) ==
    LET s[S \in SUBSET DOMAIN dict] ==
            IF S = {} THEN 0
            ELSE LET x == CHOOSE y \in S : TRUE
                 IN  dict[x] + s[S \ {x}]
    IN  s[DOMAIN dict]

\* C20: a summary that get_recent_food_logs_summary returned for the rows
\* of the user created in [now - days, now] has days_analyzed = the number
\* of distinct dates with a row; every average is the sum of the per-day
\* totals (each the sum of that date's rows) over days_analyzed, and 0 when
\* there is no row; total_logs = the number of rows = the sum of the
\* meal_type_distribution counts = the sum of the per-day item-list lengths.
TheoremC20 ==
    (calc.fn = "get_recent_food_logs_summary" /\ calc.rets[1].ok) =>
        LET v == calc.rets[1].value
            ts == calc.args[3]
            idx == {j \in DOMAIN food_logs_table :
                       /\ food_logs_table[j].user_id = calc.args[1]
                       /\ food_logs_table[j].created_at
                              >= ts - calc.args[2] * TicksPerDay
                       /\ food_logs_table[j].created_at <= ts}
            dates == {date(food_logs_table[j].created_at) : j \in idx}
        IN  /\ v.days_analyzed = Cardinality(dates)
            /\ DOMAIN v.daily_logs = dates
            /\ \A d \in dates, f \in MacroFields :
                   v.daily_logs[d][f] =
                       Total(food_logs_table,
                             {j \in idx :
                                 date(food_logs_table[j].created_at) = d}, f)
            /\ \A f \in MacroFields :
                   IF idx = {} THEN v.averages[f].sum = 0
                   ELSE v.averages[f] =
                            [sum |-> SumOf([d \in dates |-> v.daily_logs[d][f]]),
                             days |-> v.days_analyzed]
            /\ v.total_logs = Cardinality(idx)
            /\ v.total_logs = SumOf(v.meal_type_distribution)
            /\ v.total_logs =
                   SumOf([d \in dates |-> Len(v.daily_logs[d].items)])

\* a summary over the default window of seven days in which the user has
\* rows on two dates only, next to a row of another user
WitnessC20 ==
    /\ calc.fn = "get_recent_food_logs_summary"
    /\ calc.rets[1].ok
    /\ calc.args[2] = 7
    /\ calc.rets[1].value.days_analyzed = 2
    /\ calc.rets[1].value.total_logs = 2
    /\ calc.rets[1].value.averages.calories.sum > 0
    /\ Len(food_logs_table) = 3

\* ---- C21
\* the returned list holds only rows of the user, newest first, and no row
\* of the user left out is newer than a returned one
RecentFirst(logs, user_id) ==
    /\ \A i \in DOMAIN logs :
           /\ logs[i].user_id = user_id
           /\ \E j \in DOMAIN food_logs_table : food_logs_table[j] = logs[i]
    /\ \A i, j \in DOMAIN logs :
           i < j => logs[i].created_at >= logs[j].created_at
    /\ \A i, j \in DOMAIN logs : i # j => logs[i].id # logs[j].id
    /\ \A j \in DOMAIN food_logs_table :
           (/\ food_logs_table[j].user_id = user_id
            /\ \A i \in DOMAIN logs : logs[i].id # food_logs_table[j].id)
           => \A i \in DOMAIN logs :
                  food_logs_table[j].created_at <= logs[i].created_at

\* C21: a list returned by get_user_food_logs(user_id, limit) holds only rows
\* of that user, newest first, at most limit of them, and no row of the user
\* that it leaves out is newer than a row it holds.
CounterexampleC21 ==
    (calc.fn = "get_user_food_logs" /\ calc.rets[1].ok) =>
        /\ RecentFirst(calc.rets[1].value, calc.args[1])
        /\ Len(calc.rets[1].value) <= calc.args[2]

\* the same for the calls with limit >= 0, where the list also holds every
\* row of the user when there are no more than limit
RecentWithinLimit ==
    (calc.fn = "get_user_food_logs" /\ calc.rets[1].ok /\ calc.args[2] >= 0) =>
        LET n == Cardinality({j \in DOMAIN food_logs_table :
                                 food_logs_table[j].user_id = calc.args[1]})
        IN  /\ RecentFirst(calc.rets[1].value, calc.args[1])
            /\ Len(calc.rets[1].value) =
                   IF n < calc.args[2] THEN n ELSE calc.args[2]

\* a call with limit 1 returned the newer of the user's rows of two dates
RecentWithinLimitReached ==
    /\ calc.fn = "get_user_food_logs"
    /\ calc.rets[1].ok
    /\ calc.args[2] = 1
    /\ Len(calc.rets[1].value) = 1
    /\ \E j \in DOMAIN food_logs_table :
          /\ food_logs_table[j].user_id = calc.args[1]
          /\ food_logs_table[j].created_at < calc.rets[1].value[1].created_at

\* ---- C22
HasMark(text) == \E i \in DOMAIN text : text[i] = "?"

\* C22: classify_message returns question for every text with a '?' in it,
\* whatever else the text holds, and returns food_entry for the empty text.
TheoremC22 ==
    calc.fn = "classify_message" =>
        /\ HasMark(calc.args[1]) => calc.rets[1] = "question"
        /\ Len(calc.args[1]) = 0 => calc.rets[1] = "food_entry"

\* a text of food words with a '?' in its middle has been classified
WitnessC22 ==
    /\ calc.fn = "classify_message"
    /\ calc.args[1] = <<"e","g","g","?","e","g","g">>
    /\ calc.rets[1] = "question"

\* ---- C23
\* the text lower-cased, without the white space around it
Cleaned(text) == Strip(Lower(text))

\* the first word of a cleaned text: what comes before its first white space
FirstWord(text) ==
    LET spaces == {i \in DOMAIN text : IsSpace(text[i])}
    IN  IF spaces = {} THEN text
        ELSE SubSeq(text, 1, (CHOOSE i \in spaces : \A j \in spaces : i <= j) - 1)

SeeksAdvice(text) ==
    \E k \in DOMAIN QUESTION_INDICATORS :
        Contains(Cleaned(text), QUESTION_INDICATORS[k])

\* C23: a text without '?' is a question exactly when, lower-cased and
\* stripped, it starts with an interrogative word or holds an advice-seeking
\* substring; a text that holds none and whose first word is no interrogative
\* word is a food entry.
CounterexampleC23 ==
    (calc.fn = "classify_message" /\ ~HasMark(calc.args[1])) =>
        /\ calc.rets[1] = "question" <=>
               \/ \E k \in DOMAIN QUESTION_KEYWORDS :
                      StartsWith(Cleaned(calc.args[1]), QUESTION_KEYWORDS[k])
               \/ SeeksAdvice(calc.args[1])
        /\ (/\ ~SeeksAdvice(calc.args[1])
            /\ \A k \in DOMAIN QUESTION_KEYWORDS :
                   FirstWord(Cleaned(calc.args[1])) # QUESTION_KEYWORDS[k])
           => calc.rets[1] = "food_entry"

\* the first half of C23 alone: the keywords are tested as prefixes of the
\* cleaned text
KeywordsArePrefixes ==
    (calc.fn = "classify_message" /\ ~HasMark(calc.args[1])) =>
        (calc.rets[1] = "question" <=>
            \/ \E k \in DOMAIN QUESTION_KEYWORDS :
                   StartsWith(Cleaned(calc.args[1]), QUESTION_KEYWORDS[k])
            \/ SeeksAdvice(calc.args[1]))

\* "I had a banana" has been classified a food entry
BananaIsFood ==
    /\ calc.fn = "classify_message"
    /\ calc.args[1] = <<"I"," ","h","a","d"," ","a"," ","b","a","n","a","n","a">>
    /\ calc.rets[1] = "food_entry"

\* ---- C24
\* the percentage the reply shows for consumed of target
Shown(consumed, target) ==
    IF target <= 0 THEN 0 ELSE PercentOf(consumed, target)

\* C24: the reply of format_food_log_response is the header, then one block
\* per logged item in input order, each with the item's normalized title,
\* then the meal-total block, then the daily-progress block with the four
\* computed percentages, then the recommendations block, which is there
\* exactly when the list of recommendations is not empty.
TheoremC24 ==
    calc.fn = "format_food_log_response" =>
        LET logs == calc.args[1]
            progress == calc.args[3]
            recs == calc.args[4]
            out == calc.rets[1]
            n == Len(logs)
        IN  /\ Len(out) = n + 3 + (IF recs = <<>> THEN 0 ELSE 1)
            /\ out[1] = BreakdownHeader
            /\ \A i \in 1..n :
                   /\ out[1 + i].block = "item"
                   /\ out[1 + i].title = logs[i].normalized_title
            /\ out[n + 2].block = "meal_total"
            /\ out[n + 3].block = "progress"
            /\ \A f \in MacroFields :
                   out[n + 3][f][3] =
                       Shown(progress.consumed[f], progress.targets[f])
            /\ recs # <<>> =>
                   /\ out[n + 4].block = "recommendations"
                   /\ out[n + 4].items = recs
            /\ \A i \in 2..(n + 3) : out[i].block # "recommendations"

\* a reply for two different items with recommendations
WitnessC24 ==
    /\ calc.fn = "format_food_log_response"
    /\ Len(calc.args[1]) = 2
    /\ calc.args[1][1].normalized_title # calc.args[1][2].normalized_title
    /\ Len(calc.args[4]) > 0
    /\ Len(calc.rets[1]) = 6
    /\ calc.rets[1][5].calories[3] > 0

\* ---- C25
TargetOf == [calories |-> "target_calories", protein |-> "target_protein",
             carbs |-> "target_carbs", fats |-> "target_fats"]

\* the daily-progress block of a breakdown reply
ProgressBlock(reply) ==
    reply[CHOOSE i \in DOMAIN reply :
              "block" \in DOMAIN reply[i] /\ reply[i].block = "progress"]

\* C25: when the food message of a user with an absent (NULL) target gets as
\* far as its daily totals, the turn ends with the breakdown reply; for each
\* macro whose target is absent the reply shows target 0 and 0%, the
\* remaining amount of that macro is 0, and when the calorie target is absent
\* the only recommendation is the target-reached line.
TheoremC25 ==
    \A m \in Msgs :
        (/\ pc[m] = "done"
         /\ Has(trace[m], "daily_totals")
         /\ \E f \in MacroFields : user[m][TargetOf[f]] = Null) =>
            /\ Has(trace[m], "format")
            /\ result[m].kind = "response"
            /\ ReplyBody(m)[1] = BreakdownHeader
            /\ LET shown == ProgressBlock(ReplyBody(m))
                   targets == DailyTargets(_extract_user_profile(user[m])).value
                   last == ReplyBody(m)[Len(ReplyBody(m))]
               IN  /\ \A f \in MacroFields :
                          user[m][TargetOf[f]] = Null =>
                              /\ shown[f][2] = 0
                              /\ shown[f][3] = 0
                              /\ \A consumed \in MacroValues :
                                     calculate_daily_progress(consumed, targets)
                                         .remaining[f] = 0
                   /\ user[m].target_calories = Null =>
                          /\ last.block = "recommendations"
                          /\ last.items = <<Rec("calorie_target_reached", 0)>>

\* the food message of user 2, whose only target is protein, has been
\* answered with a breakdown that shows protein eaten against that target
WitnessC25 ==
    \E m \in Msgs :
        /\ pc[m] = "done"
        /\ user[m].id = 2
        /\ Has(trace[m], "format")
        /\ ProgressBlock(ReplyBody(m)).calories[3] = 0
        /\ ProgressBlock(ReplyBody(m)).protein[3] > 0
        /\ \E j \in DOMAIN food_logs_table : food_logs_table[j].user_id = 2

\* ---- C26
\* C26: for every pair (consumed, target), target <= 0 included, the
\* formatter's _calculate_percentage and the calculator's
\* calculate_macro_percentage return the same integer.
TheoremC26 ==
    calc.fn = "percentages" => calc.rets[1] = calc.rets[2]

\* both give 114 for 23 of 20
WitnessC26 ==
    /\ calc.fn = "percentages"
    /\ calc.args = <<23, 20>>
    /\ calc.rets = <<114, 114>>

\* ---- C27
\* the kinds of a list of recommendations, in order
Kinds(recs) == [i \in DOMAIN recs |-> recs[i].kind]

\* C27: for all non-negative daily totals and targets, the legacy handler,
\* which does not clamp target - consumed, selects the same kinds of
\* recommendation in the same order as calculate_daily_progress followed by
\* generate_recommendations.
TheoremC27 ==
    calc.fn = "recommendations" =>
        Kinds(calc.rets[1]) = Kinds(calc.rets[2])

\* protein is over its target, where the unclamped remaining amount is
\* negative, and both select the carbs and the fats suggestions
WitnessC27 ==
    /\ calc.fn = "recommendations"
    /\ calc.args[1].protein > calc.args[2].protein
    /\ Kinds(calc.rets[1]) = <<"carbs", "fats">>
    /\ Kinds(calc.rets[2]) = <<"carbs", "fats">>

\* ---- C28
\* the reply of a finished message is the error reply
ErrorReply(m) == result[m].kind = "response" /\ ReplyBody(m)[1] = ErrorPrefix

\* the reply of a finished message is the breakdown of the logged meal
BreakdownReply(m) ==
    result[m].kind = "response" /\ ReplyBody(m)[1] = BreakdownHeader

\* C28: for a finished food message the reply and the store agree: an error
\* reply means that no row of the message is in the table, and rows of the
\* message are in the table only if the reply is the breakdown.
CounterexampleC28 ==
    \A m \in Msgs :
        pc[m] = "done" =>
            /\ ErrorReply(m) => RowsFrom(m) = {}
            /\ RowsFrom(m) # {} => BreakdownReply(m)

\* what does hold: a breakdown reply means that the rows of the message are
\* in the table, and an error reply comes with rows only when a step after
\* the commit failed
RepliesAfterCommit ==
    \A m \in Msgs :
        pc[m] = "done" =>
            /\ BreakdownReply(m) => Cardinality(RowsFrom(m)) = ItemCount(m)
            /\ (ErrorReply(m) /\ RowsFrom(m) # {}) =>
                   \/ Has(trace[m], "refresh_failed")
                   \/ Has(trace[m], "daily_totals_failed")
                   \/ (Has(trace[m], "meal_totals") /\ Has(trace[m], "wrap"))
                   \/ (Has(trace[m], "daily_totals") /\ Has(trace[m], "wrap"))

\* ---- C29
\* the meal-total block of a breakdown reply
MealTotalBlock(reply) ==
    reply[CHOOSE i \in DOMAIN reply :
              "block" \in DOMAIN reply[i] /\ reply[i].block = "meal_total"]

\* in the reply of message m, the consumed figure of every macro is at least
\* the meal total of the message
OwnItemsCounted(m) ==
    /\ ProgressBlock(ReplyBody(m)).calories[1]
           >= MealTotalBlock(ReplyBody(m)).calories
    /\ \A f \in {"protein", "carbs", "fats"} :
           ProgressBlock(ReplyBody(m))[f][1] >= MealTotalBlock(ReplyBody(m))[f]

\* C29: in a successful food-entry turn the consumed figures of the reply
\* include the message's own items: for each macro, consumed >= the meal
\* total of the message, whatever other messages do meanwhile.
CounterexampleC29 ==
    \A m \in Msgs :
        (pc[m] = "done" /\ Has(trace[m], "format")) => OwnItemsCounted(m)

\* what does hold: the own items are counted when the rows of the message
\* were created on the day that is still the present day
OwnItemsCountedSameDay ==
    \A m \in Msgs :
        (/\ pc[m] = "done"
         /\ Has(trace[m], "format")
         /\ \A i \in RowsFrom(m) :
                date(food_logs_table[i].created_at) = date(now))
            => OwnItemsCounted(m)

\* two messages of one user were both answered with a breakdown on the day
\* of their commits, the later reply counting the rows of both
BothCountedSameDay ==
    \E m, k \in Msgs :
        /\ m # k
        /\ pc[m] = "done" /\ pc[k] = "done"
        /\ Has(trace[m], "format") /\ Has(trace[k], "format")
        /\ user[m].id = user[k].id
        /\ \A i \in RowsFrom(m) \cup RowsFrom(k) :
               date(food_logs_table[i].created_at) = date(now)
        /\ ProgressBlock(ReplyBody(m)).protein[1]
               > MealTotalBlock(ReplyBody(m)).protein

\* ---- C30
\* C30: a step of the handling of a question (a text with a '?' in it) leaves
\* the table of food logs as it is, adds nothing to the session that a later
\* commit could insert, and leaves the fields of the user row as they were
\* read, whether the question-answering call succeeds or fails.
TheoremC30 ==
    [][\A m \in Msgs :
          (HasMark(Body[m]) /\ pc'[m] # pc[m]) =>
              /\ food_logs_table' = food_logs_table
              /\ session'[m] = <<>>
              /\ committed'[m] = <<>>
              /\ user[m] # NoUser => user'[m] = user[m]]_vars

\* a question was answered and another question of the same user failed at
\* the AI call, while the table holds no row
WitnessC30 ==
    /\ \E m \in Msgs :
          /\ pc[m] = "done"
          /\ HasMark(Body[m])
          /\ trace[m] = <<"lookup", "classify", "summary", "answer">>
    /\ \E m \in Msgs :
          /\ pc[m] = "done"
          /\ HasMark(Body[m])
          /\ trace[m] = <<"lookup", "classify", "summary", "answer", "wrap">>
    /\ food_logs_table = <<>>

====
